---- MODULE Spec2Model ----
(***************************************************************************)
(* Scheduling and change-detection core of the universal scraper:          *)
(* the Scheduler of NotificationManager.ts (per-query timers, discovery    *)
(* poll, executeSearch pipeline), the product and notification tables of   *)
(* database.ts and the Marktplaats item conversion.                        *)
(*                                                                         *)
(* Every `await` of the source is a step boundary: an asynchronous call    *)
(* chain (a timer callback, scheduleQuery, the poll body, ...) is a task   *)
(* with a program counter, and the code between two awaits is one atomic   *)
(* step, as on the Node.js event loop.                                     *)
(*                                                                         *)
(* Prices are whole euros (priceCents is a multiple of 100).  A null       *)
(* column is Null (-1); a null lastScrapedAt is FALSE.                     *)
(***************************************************************************)
EXTENDS Integers, Sequences, FiniteSets, TLC

\* ---------------------------------------------------------------- bounds
MaxOps == 2          \* operations the environment starts (timer firings, polls, ...)
MaxTasks == 2        \* asynchronous call chains alive at once
MaxQueryId == 2      \* rows of search_queries

\* ------------------------------------------------------ program constants
LIDL == 1
MARKTPLAATS == 2
VINTED == 3

\* config.scraping.defaultIntervalMinutes (DEFAULT_SCRAPE_INTERVAL_MINUTES unset)
defaultIntervalMinutes == 60

\* What a user gives the bot to search for: keywords, or the address of a
\* Marktplaats result page (the only text that starts with 'http'); and the
\* endpoint MarktplaatsApiDiscovery.discoverApiUrl finds behind that page.
Keywords == "fiets"
SearchUrl == "https://www.marktplaats.nl/q/fiets/"
DiscoveredUrl == "https://www.marktplaats.nl/lrp/api/search?query=fiets"

Null == 0 - 1
QueryIds == 1..MaxQueryId
TaskIds == 1..MaxTasks
Users == {1, 2}

VARIABLES
  search_queries,      \* table search_queries: id -> row, NoQuery when absent
  products,            \* table products: sequence of rows, id = index
  notifications,       \* table notifications: sequence of rows, id = index
  deliveries,          \* notifications handed to telegramBot.sendNotification
  jobs,                \* Scheduler.jobs: query id -> timer handle, 0 when absent
  timers,              \* node-schedule jobs that are armed: {[h, query]}
  lastExecutionTimes,  \* Scheduler.lastExecutionTimes: query ids with an entry
  watchForNewQueriesJob, \* TRUE while the discovery poll is armed
  scrapers,            \* Scheduler.scrapers: retailer ids with an adapter
  isInitialized,       \* Scheduler.isInitialized
  tasks,               \* task id -> call chain in progress (Idle when free)
  nextTimer,           \* next timer handle
  ops,                 \* operations started so far (bounded by MaxOps)
  booted,              \* bootstrap has called scheduleAllActiveQueries
  last,                \* history: the last execution that returned
  attempts,            \* calls of bot.telegram.sendPhoto / sendMessage, with outcome
  cancelled,           \* history: query ids cancelled after their scheduleQuery call
  shutdown,            \* progress of the shutdownHandler of index.ts
  cron,                \* one query's cron rule on the wall clock (minutes)
  userStates,          \* TelegramBot.userStates: user -> step of the creation conversation
  http,                \* the last request to the web API, with its response
  dbinit,              \* progress of initializeDatabase
  seen,                \* history: query id -> external ids its fetches have returned
  registry,            \* initializeScrapers calls in progress and the factory's calls
  paging               \* one scraper.search invocation, page request by page request

vars == <<search_queries, products, notifications, deliveries, jobs, timers,
          lastExecutionTimes, watchForNewQueriesJob, scrapers, isInitialized,
          tasks, nextTimer, ops, booted, last, attempts, cancelled, shutdown,
          cron, userStates, http, dbinit, seen, registry, paging>>

\* ------------------------------------------------------------------ rows
NoQuery ==
  [id |-> 0, userId |-> 0, retailerId |-> 0, isActive |-> FALSE,
   lastScrapedAt |-> FALSE, notifyOnNew |-> FALSE, notifyOnPriceDrops |-> FALSE,
   priceDropThresholdPercent |-> 0, intervalMinutes |-> 0, searchText |-> "",
   apiUrl |-> ""]

NoRow ==
  [id |-> 0, retailerId |-> 0, externalId |-> "", price |-> 0,
   oldPrice |-> Null, priceType |-> ""]

\* A SearchQuery row as the bot creates it from a result page address.
\* priceDropThresholdPercent 0 stands for the null column (both are falsy in
\* the test of line 658), apiUrl "" for the null column.
SearchQuery(id, user, scraped, onNew, onDrop, thr) ==
  [id |-> id, userId |-> user, retailerId |-> MARKTPLAATS, isActive |-> TRUE,
   lastScrapedAt |-> scraped, notifyOnNew |-> onNew, notifyOnPriceDrops |-> onDrop,
   priceDropThresholdPercent |-> thr, intervalMinutes |-> defaultIntervalMinutes,
   searchText |-> SearchUrl, apiUrl |-> ""]

\* An upstream Marktplaats item.
MarktplaatsItem(id, type, cents) ==
  [itemId |-> id, priceType |-> type, priceCents |-> cents]

\* MarktplaatsScraper.convertItemToProduct: a FAST_BID item is carried as price 0.
convertItemToProduct(item) ==
  [retailerId |-> MARKTPLAATS,
   externalId |-> item.itemId,
   price |-> IF item.priceType = "FAST_BID" THEN 0 ELSE item.priceCents \div 100,
   priceType |-> item.priceType]

RECURSIVE convertAll(_)
convertAll(items) ==
  IF items = <<>> THEN <<>>
  ELSE <<convertItemToProduct(Head(items))>> \o convertAll(Tail(items))

\* Math.round of a non-negative ratio n/d: the nearest integer, halves up.  On
\* the prices of the model the double arithmetic of line 610 gives this value.
MathRound(n, d) == (2 * n + d) \div (2 * d)

\* Scheduler.calculatePriceDropPercentage
calculatePriceDropPercentage(oldPrice, newPrice) ==
  IF oldPrice <= 0 \/ newPrice <= 0 THEN 0
  ELSE MathRound((oldPrice - newPrice) * 100, oldPrice)

\* Mutant of meetsThreshold: a drop of exactly the threshold does not count.
meetsThresholdStrict(query, dropPercentage) ==
  \/ query.priceDropThresholdPercent = 0
  \/ dropPercentage > query.priceDropThresholdPercent

\* The test of lines 658-659.
meetsThreshold(query, dropPercentage) ==
  \/ query.priceDropThresholdPercent = 0
  \/ dropPercentage >= query.priceDropThresholdPercent

\* db('products').where({retailerId, externalId}).first()
FindProduct(P, retailerId, externalId) ==
  IF \E i \in 1..Len(P) : P[i].retailerId = retailerId /\ P[i].externalId = externalId
  THEN P[CHOOSE i \in 1..Len(P) :
               /\ P[i].retailerId = retailerId /\ P[i].externalId = externalId
               /\ \A j \in 1..(i - 1) :
                     ~(P[j].retailerId = retailerId /\ P[j].externalId = externalId)]
  ELSE NoRow

\* Mutant of UniqueViolation: a products table without the unique constraint.
NoUniqueConstraint(P, row) == FALSE

\* table.unique(['retailerId', 'externalId']) of the products table: the insert
\* of a second row with the same key is rejected.
UniqueViolation(P, row) ==
  \E i \in 1..Len(P) : P[i].retailerId = row.retailerId /\ P[i].externalId = row.externalId

\* Mutant of UpdatedProduct: oldPrice takes the stored price on every update.
UpdatedProductShiftingAlways(existing, newProduct) ==
  [existing EXCEPT
     !.price = newProduct.price,
     !.oldPrice = existing.price,
     !.priceType = newProduct.priceType]

\* The update of lines 639-648.
UpdatedProduct(existing, newProduct) ==
  [existing EXCEPT
     !.price = newProduct.price,
     !.oldPrice = IF existing.price # newProduct.price THEN existing.price
                  ELSE existing.oldPrice,
     !.priceType = newProduct.priceType]

\* ---------------------------------------------------------------- tasks
Idle ==
  [kind |-> "idle", pc |-> "idle", ret |-> "", query |-> NoQuery, todo |-> <<>>,
   items |-> <<>>, fetched |-> <<>>, existing |-> NoRow, productId |-> 0,
   ntype |-> "", notifId |-> 0, isFirstRun |-> FALSE, firstEver |-> FALSE,
   nNew |-> 0, nDrop |-> 0, nExec |-> 0, aborted |-> FALSE, failed |-> "",
   fresh |-> {}]

ExecPcs == {"search", "lookup", "update", "insert", "notify", "send", "stamp"}
RetPcs == {"arm", "poll_sched", "force_next", "timer_done"}

Free(t) == tasks[t].kind = "idle"
\* new call chains take the lowest free slot
FreeSlot(t) == Free(t) /\ \A u \in TaskIds : u < t => ~Free(u)

\* Entry of executeSearch (lines 614-622): runs up to the await of scraper.search.
\* firstEver, nNew, nDrop and nExec are history: whether the stored row had
\* never been stamped, the rows this execution created, and how many times the
\* call chain has entered executeSearch for this query.  aborted and failed are
\* history too: the execution left through the catch of line 731, and what
\* failed in it ("fetch", "store" or "notify").  fresh is history as well: the
\* external ids of this execution's fetch that no earlier fetch of the query
\* had returned.
executeSearch(task, query, ret) ==
  [task EXCEPT
     !.pc = "search", !.ret = ret, !.query = query,
     !.items = <<>>, !.fetched = <<>>, !.existing = NoRow, !.productId = 0,
     !.ntype = "", !.notifId = 0,
     !.isFirstRun = ~query.lastScrapedAt,
     !.firstEver = ~search_queries[query.id].lastScrapedAt,
     !.nNew = 0, !.nDrop = 0, !.aborted = FALSE, !.failed = "", !.fresh = {},
     !.nExec = IF task.query.id = query.id THEN @ + 1 ELSE 1]

Executing(t, q) == tasks[t].pc \in ExecPcs /\ tasks[t].query.id = q

\* ------------------------------------------------------- executeSearch
\* What the caller sees when executeSearch returns: the task moves to its
\* continuation and the finished execution is recorded in the history.
Returned(t, task, P) ==
  /\ tasks' = [tasks EXCEPT ![t] = [task EXCEPT !.pc = task.ret]]
  /\ last' = [query |-> task.query.id, fetched |-> task.fetched,
              aborted |-> task.aborted, after |-> P]

\* End of one iteration of the loop of line 626.
NextListing(task) ==
  IF Len(task.items) > 1
  THEN [task EXCEPT !.items = Tail(task.items), !.pc = "lookup"]
  ELSE [task EXCEPT !.items = <<>>, !.pc = "stamp"]

\* The test of line 118 of MarktplaatsScraper.search, on the query object the
\* execution was given: no endpoint on it and a search text that starts with
\* 'http'.
NeedsDiscovery(query) == query.apiUrl = "" /\ query.searchText = SearchUrl

\* Lines 118-126 of MarktplaatsScraper.search: the endpoint is discovered and
\* stored on the row of the query.
Cached(Q, query) ==
  IF NeedsDiscovery(query) /\ Q[query.id] # NoQuery
  THEN [Q EXCEPT ![query.id].apiUrl = DiscoveredUrl]
  ELSE Q

\* Line 622: the awaited scraper.search(query) discovers the endpoint when the
\* query object has none, and returns the listings of a fetch result r, one of
\* those the upstream can answer the query with.  seen records what the
\* fetches of each query have returned.
Search(t, results) ==
  /\ tasks[t].pc = "search"
  /\ \E r \in results[tasks[t].query.id] :
       LET newProducts == convertAll(r) IN
       /\ tasks' = [tasks EXCEPT ![t] =
                      [@ EXCEPT !.fetched = newProducts, !.items = newProducts,
                                !.fresh = {newProducts[i].externalId :
                                             i \in 1..Len(newProducts)}
                                          \ seen[tasks[t].query.id],
                                !.pc = IF Len(newProducts) > 0 THEN "lookup" ELSE "stamp"]]
       /\ seen' = [seen EXCEPT ![tasks[t].query.id] =
                      @ \cup {newProducts[i].externalId : i \in 1..Len(newProducts)}]
  /\ search_queries' = Cached(search_queries, tasks[t].query)
  /\ UNCHANGED <<attempts, cancelled, shutdown, cron, userStates, http, dbinit,
                 registry, paging>>
  /\ UNCHANGED <<products, notifications, deliveries, jobs, timers,
                 lastExecutionTimes, watchForNewQueriesJob, scrapers, isInitialized,
                 nextTimer, ops, booted, last>>

\* Lines 628-633: look the listing up by (retailerId, externalId).
Lookup(t) ==
  /\ tasks[t].pc = "lookup"
  /\ LET newProduct == Head(tasks[t].items)
         existingProduct == FindProduct(products, newProduct.retailerId,
                                        newProduct.externalId)
     IN tasks' = [tasks EXCEPT ![t] =
                    [@ EXCEPT !.existing = existingProduct,
                              !.productId = 0, !.ntype = "", !.notifId = 0,
                              !.pc = IF existingProduct # NoRow THEN "update"
                                     ELSE "insert"]]
  /\ UNCHANGED <<attempts, cancelled, shutdown, cron, userStates, http, dbinit, seen, registry, paging>>
  /\ UNCHANGED <<search_queries, products, notifications, deliveries, jobs, timers,
                 lastExecutionTimes, watchForNewQueriesJob, scrapers, isInitialized,
                 nextTimer, ops, booted, last>>

\* The condition of line 653 together with the threshold test of lines 655-661.
NotifiesPriceDrop(isFirstRun, query, existingProduct, newProduct) ==
  /\ ~isFirstRun
  /\ query.notifyOnPriceDrops
  /\ newProduct.price < existingProduct.price
  /\ meetsThreshold(query,
       calculatePriceDropPercentage(existingProduct.price, newProduct.price))

\* Lines 637-688: update the stored product, then decide on a PRICE_DROP.
Update(t) ==
  /\ tasks[t].pc = "update"
  /\ LET task == tasks[t]
         newProduct == Head(task.items)
         existingProduct == task.existing
         decided == [task EXCEPT !.productId = existingProduct.id]
     IN /\ products' = [products EXCEPT ![existingProduct.id] =
                          UpdatedProduct(existingProduct, newProduct)]
        /\ tasks' = [tasks EXCEPT ![t] =
             IF NotifiesPriceDrop(task.isFirstRun, task.query, existingProduct, newProduct)
             THEN [decided EXCEPT !.pc = "notify", !.ntype = "PRICE_DROP"]
             ELSE NextListing(decided)]
  /\ UNCHANGED <<attempts, cancelled, shutdown, cron, userStates, http, dbinit, seen, registry, paging>>
  /\ UNCHANGED <<search_queries, notifications, deliveries, jobs, timers,
                 lastExecutionTimes, watchForNewQueriesJob, scrapers, isInitialized,
                 nextTimer, ops, booted, last>>

\* Mutant of NotifiesNew: the notifyOnNew preference is not consulted.
NotifiesNewRegardless(isFirstRun, query) == ~isFirstRun

\* The condition of line 701.
NotifiesNew(isFirstRun, query) == ~isFirstRun /\ query.notifyOnNew

\* Lines 689-716: insert the new product, then decide on a NEW_PRODUCT.  An
\* insert the unique constraint rejects throws out of the loop (line 731).
Insert(t) ==
  /\ tasks[t].pc = "insert"
  /\ LET task == tasks[t]
         newProduct == Head(task.items)
         row == [id |-> Len(products) + 1, retailerId |-> newProduct.retailerId,
                 externalId |-> newProduct.externalId, price |-> newProduct.price,
                 oldPrice |-> Null, priceType |-> newProduct.priceType]
         decided == [task EXCEPT !.productId = row.id]
     IN IF UniqueViolation(products, row)
        THEN /\ Returned(t, [task EXCEPT !.aborted = TRUE], products)
             /\ UNCHANGED products
        ELSE /\ products' = Append(products, row)
             /\ tasks' = [tasks EXCEPT ![t] =
                  IF NotifiesNew(task.isFirstRun, task.query)
                  THEN [decided EXCEPT !.pc = "notify", !.ntype = "NEW_PRODUCT"]
                  ELSE NextListing(decided)]
             /\ UNCHANGED last
  /\ UNCHANGED <<attempts, cancelled, shutdown, cron, userStates, http, dbinit, seen, registry, paging>>
  /\ UNCHANGED <<search_queries, notifications, deliveries, jobs, timers,
                 lastExecutionTimes, watchForNewQueriesJob, scrapers, isInitialized,
                 nextTimer, ops, booted>>

\* Mutant of createNotification: the row is inserted as already read.
createNotificationAsRead(t) ==
  /\ tasks[t].pc = "notify"
  /\ LET task == tasks[t] IN
     /\ notifications' = Append(notifications,
          [id |-> Len(notifications) + 1, userId |-> task.query.userId,
           productId |-> task.productId, searchQueryId |-> task.query.id,
           notificationType |-> task.ntype, isRead |-> TRUE])
     /\ tasks' = [tasks EXCEPT ![t] =
          [task EXCEPT !.notifId = Len(notifications) + 1, !.pc = "send",
                       !.nNew = IF task.ntype = "NEW_PRODUCT" THEN @ + 1 ELSE @,
                       !.nDrop = IF task.ntype = "PRICE_DROP" THEN @ + 1 ELSE @]]
  /\ UNCHANGED <<attempts, cancelled, shutdown, cron, userStates, http, dbinit, seen, registry, paging>>
  /\ UNCHANGED <<search_queries, products, deliveries, jobs, timers,
                 lastExecutionTimes, watchForNewQueriesJob, scrapers, isInitialized,
                 nextTimer, ops, booted, last>>

\* NotificationManager.createNotification (lines 214-236), called at 674 and 704.
createNotification(t) ==
  /\ tasks[t].pc = "notify"
  /\ LET task == tasks[t] IN
     /\ notifications' = Append(notifications,
          [id |-> Len(notifications) + 1, userId |-> task.query.userId,
           productId |-> task.productId, searchQueryId |-> task.query.id,
           notificationType |-> task.ntype, isRead |-> FALSE])
     /\ tasks' = [tasks EXCEPT ![t] =
          [task EXCEPT !.notifId = Len(notifications) + 1, !.pc = "send",
                       !.nNew = IF task.ntype = "NEW_PRODUCT" THEN @ + 1 ELSE @,
                       !.nDrop = IF task.ntype = "PRICE_DROP" THEN @ + 1 ELSE @]]
  /\ UNCHANGED <<attempts, cancelled, shutdown, cron, userStates, http, dbinit, seen, registry, paging>>
  /\ UNCHANGED <<search_queries, products, deliveries, jobs, timers,
                 lastExecutionTimes, watchForNewQueriesJob, scrapers, isInitialized,
                 nextTimer, ops, booted, last>>

\* Scheduler.sendImmediateNotification (lines 739-792): the notification is
\* read back joined with its product, a PRICE_DROP gets its percentage from the
\* stored oldPrice and price (when both are truthy), and it is handed to the bot.
sendImmediateNotification(t) ==
  /\ tasks[t].pc = "send"
  /\ LET notification == notifications[tasks[t].notifId]
         product == products[notification.productId]
     IN deliveries' = deliveries \cup
          {[id |-> notification.id,
            priceDropPercentage |->
              IF /\ notification.notificationType = "PRICE_DROP"
                 /\ product.oldPrice # Null /\ product.oldPrice # 0
                 /\ product.price # 0
              THEN calculatePriceDropPercentage(product.oldPrice, product.price)
              ELSE Null]}
  /\ tasks' = [tasks EXCEPT ![t] = NextListing(@)]
  /\ UNCHANGED <<attempts, cancelled, shutdown, cron, userStates, http, dbinit, seen, registry, paging>>
  /\ UNCHANGED <<search_queries, products, notifications, jobs, timers,
                 lastExecutionTimes, watchForNewQueriesJob, scrapers, isInitialized,
                 nextTimer, ops, booted, last>>

\* Lines 722-725: stamp lastScrapedAt on the stored row; executeSearch returns.
Stamp(t) ==
  /\ tasks[t].pc = "stamp"
  /\ LET id == tasks[t].query.id IN
     search_queries' = IF search_queries[id] # NoQuery
                       THEN [search_queries EXCEPT ![id].lastScrapedAt = TRUE]
                       ELSE search_queries
  /\ Returned(t, tasks[t], products)
  /\ UNCHANGED <<attempts, cancelled, shutdown, cron, userStates, http, dbinit, seen, registry, paging>>
  /\ UNCHANGED <<products, notifications, deliveries, jobs, timers,
                 lastExecutionTimes, watchForNewQueriesJob, scrapers, isInitialized,
                 nextTimer, ops, booted>>

\* ----------------------------------------------------------- Scheduler
\* Scheduler.cancelJob (lines 497-504) on a job table J and the armed timers T.
cancelJob(J, T, queryId) ==
  IF J[queryId] # 0
  THEN [jobs |-> [J EXCEPT ![queryId] = 0], timers |-> {x \in T : x.h # J[queryId]}]
  ELSE [jobs |-> J, timers |-> T]

\* Rows of a select over search_queries, in id order.
RECURSIVE Rows(_, _)
Rows(ids, from) ==
  IF from > MaxQueryId THEN <<>>
  ELSE (IF from \in ids THEN <<search_queries[from]>> ELSE <<>>) \o Rows(ids, from + 1)

\* The join of lines 438-444 and 544-549 (every user of the model is active).
ActiveQueryIds ==
  {q \in QueryIds : search_queries[q] # NoQuery /\ search_queries[q].isActive
                    /\ search_queries[q].userId \in Users}

\* The loop of scheduleAllActiveQueries (lines 449-451) up to the next await:
\* scheduleQuery cancels the query's job and returns early without a scraper
\* (lines 462-469); otherwise it enters executeSearch for the head of todo.
RECURSIVE ScheduleLoop(_, _, _, _)
ScheduleLoop(J, T, S, todo) ==
  IF todo = <<>> THEN [jobs |-> J, timers |-> T, todo |-> <<>>]
  ELSE LET c == cancelJob(J, T, Head(todo).id) IN
       IF Head(todo).retailerId \in S
       THEN [jobs |-> c.jobs, timers |-> c.timers, todo |-> todo]
       ELSE ScheduleLoop(c.jobs, c.timers, S, Tail(todo))

\* The loops of lines 557-563 and 804-806: queries without a scraper are skipped.
RECURSIVE SkipNoScraper(_, _)
SkipNoScraper(S, todo) ==
  IF todo = <<>> THEN <<>>
  ELSE IF Head(todo).retailerId \in S THEN todo
  ELSE SkipNoScraper(S, Tail(todo))

\* A loop over todo goes on with its head, or the call chain ends.
Continue(task, todo, ret) ==
  IF todo = <<>> THEN Idle
  ELSE executeSearch([task EXCEPT !.todo = todo], Head(todo), ret)

\* Scheduler.initializeScrapers (lines 399-427) with the factory of index.ts:
\* Lidl and Marktplaats have an adapter, Vinted has none.
InitializedScrapers == {LIDL, MARKTPLAATS}

\* An absent entry of TelegramBot.userStates.
NoData ==
  [retailerId |-> 0, searchText |-> "", intervalMinutes |-> 0,
   notifyOnNew |-> FALSE, notifyOnPriceDrops |-> FALSE]

NoState == [state |-> "", data |-> NoData]

\* this.userStates.delete(ctx.from.id) (TelegramBot.ts line 448); a user's
\* Telegram id is the user's id in the model.
Deleted(states, user) == [states EXCEPT ![user] = NoState]

\* Lines 474-495, the code of scheduleQuery after its awaited executeSearch:
\* arm the recurring timer and store it in the job table; then the caller goes
\* on (createSearchQuery with clearing the user's conversation state).
Arm(t) ==
  /\ tasks[t].pc = "arm"
  /\ LET task == tasks[t]
         armedT == timers \cup {[h |-> nextTimer, query |-> task.query]}
         armedJ == [jobs EXCEPT ![task.query.id] = nextTimer]
         loop == ScheduleLoop(armedJ, armedT, scrapers, Tail(task.todo))
         more == SkipNoScraper(scrapers, Tail(task.todo))
     IN /\ lastExecutionTimes' = lastExecutionTimes \cup {task.query.id}
        /\ nextTimer' = nextTimer + 1
        /\ CASE task.kind = "bootstrap" ->
                  /\ jobs' = loop.jobs
                  /\ timers' = loop.timers
                  /\ tasks' = [tasks EXCEPT ![t] = Continue(task, loop.todo, "arm")]
             [] task.kind = "poll" ->
                  /\ jobs' = armedJ
                  /\ timers' = armedT
                  /\ tasks' = [tasks EXCEPT ![t] = Continue(task, more, "poll_sched")]
             [] OTHER ->
                  /\ jobs' = armedJ
                  /\ timers' = armedT
                  /\ tasks' = [tasks EXCEPT ![t] = Idle]
        /\ userStates' = IF task.kind = "create" THEN Deleted(userStates, task.query.userId)
                          ELSE userStates
  /\ UNCHANGED <<attempts, cancelled, shutdown, cron, http, dbinit, seen, registry, paging>>
  /\ UNCHANGED <<search_queries, products, notifications, deliveries,
                 watchForNewQueriesJob, scrapers, isInitialized, ops, booted, last>>

\* The timer callback of lines 477-484: every firing of an armed timer enters
\* executeSearch with the query object scheduleQuery was called with.
TimerFire(t) ==
  /\ ops < MaxOps
  /\ FreeSlot(t)
  /\ \E x \in timers :
       tasks' = [tasks EXCEPT ![t] =
                   executeSearch([Idle EXCEPT !.kind = "timer"], x.query, "timer_done")]
  /\ ops' = ops + 1
  /\ UNCHANGED <<attempts, cancelled, shutdown, cron, userStates, http, dbinit, seen, registry, paging>>
  /\ UNCHANGED <<search_queries, products, notifications, deliveries, jobs, timers,
                 lastExecutionTimes, watchForNewQueriesJob, scrapers, isInitialized,
                 nextTimer, booted, last>>

\* Lines 481-483: the callback after its awaited executeSearch.
TimerDone(t) ==
  /\ tasks[t].pc = "timer_done"
  /\ lastExecutionTimes' = lastExecutionTimes \cup {tasks[t].query.id}
  /\ tasks' = [tasks EXCEPT ![t] = Idle]
  /\ UNCHANGED <<attempts, cancelled, shutdown, cron, userStates, http, dbinit, seen, registry, paging>>
  /\ UNCHANGED <<search_queries, products, notifications, deliveries, jobs, timers,
                 watchForNewQueriesJob, scrapers, isInitialized, nextTimer, ops,
                 booted, last>>

\* The poll body of lines 533-576 up to its first executeSearch: the active
\* queries that are not in the job table, each run (line 567) and then scheduled.
PollFire(t) ==
  /\ ops < MaxOps
  /\ watchForNewQueriesJob
  /\ FreeSlot(t)
  /\ LET S == IF isInitialized THEN scrapers ELSE InitializedScrapers
         scheduledQueryIds == {q \in QueryIds : jobs[q] # 0}
         newQueries == Rows(ActiveQueryIds \ scheduledQueryIds, 1)
     IN /\ scrapers' = S
        /\ isInitialized' = TRUE
        /\ tasks' = [tasks EXCEPT ![t] =
             Continue([Idle EXCEPT !.kind = "poll"], SkipNoScraper(S, newQueries),
                      "poll_sched")]
  /\ ops' = ops + 1
  /\ UNCHANGED <<attempts, cancelled, shutdown, cron, userStates, http, dbinit, seen, registry, paging>>
  /\ UNCHANGED <<search_queries, products, notifications, deliveries, jobs, timers,
                 lastExecutionTimes, watchForNewQueriesJob, nextTimer, booted, last>>

\* Line 570: after its own executeSearch the poll calls scheduleQuery, which
\* cancels the query's job and enters executeSearch again (lines 462-473).
PollSchedule(t) ==
  /\ tasks[t].pc = "poll_sched"
  /\ LET c == cancelJob(jobs, timers, tasks[t].query.id) IN
     /\ jobs' = c.jobs
     /\ timers' = c.timers
     /\ tasks' = [tasks EXCEPT ![t] = executeSearch(@, tasks[t].query, "arm")]
  /\ UNCHANGED <<attempts, cancelled, shutdown, cron, userStates, http, dbinit, seen, registry, paging>>
  /\ UNCHANGED <<search_queries, products, notifications, deliveries,
                 lastExecutionTimes, watchForNewQueriesJob, scrapers, isInitialized,
                 nextTimer, ops, booted, last>>

\* Mutant of forceRunAllQueries: the select is not restricted to the user.
forceRunAllQueriesOfEveryone(t, userId) ==
  /\ ops < MaxOps
  /\ FreeSlot(t)
  /\ LET queries == Rows({q \in QueryIds : /\ search_queries[q] # NoQuery
                                           /\ search_queries[q].isActive}, 1)
     IN tasks' = [tasks EXCEPT ![t] =
          Continue([Idle EXCEPT !.kind = "force"], SkipNoScraper(scrapers, queries),
                   "force_next")]
  /\ ops' = ops + 1
  /\ UNCHANGED <<attempts, cancelled, shutdown, cron, userStates, http, dbinit, seen, registry, paging>>
  /\ UNCHANGED <<search_queries, products, notifications, deliveries, jobs, timers,
                 lastExecutionTimes, watchForNewQueriesJob, scrapers, isInitialized,
                 nextTimer, booted, last>>

\* Scheduler.forceRunAllQueries (lines 795-814) up to its first executeSearch.
forceRunAllQueries(t, userId) ==
  /\ ops < MaxOps
  /\ FreeSlot(t)
  /\ LET queries == Rows({q \in QueryIds : /\ search_queries[q] # NoQuery
                                           /\ search_queries[q].userId = userId
                                           /\ search_queries[q].isActive}, 1)
     IN tasks' = [tasks EXCEPT ![t] =
          Continue([Idle EXCEPT !.kind = "force"], SkipNoScraper(scrapers, queries),
                   "force_next")]
  /\ ops' = ops + 1
  /\ UNCHANGED <<attempts, cancelled, shutdown, cron, userStates, http, dbinit, seen, registry, paging>>
  /\ UNCHANGED <<search_queries, products, notifications, deliveries, jobs, timers,
                 lastExecutionTimes, watchForNewQueriesJob, scrapers, isInitialized,
                 nextTimer, booted, last>>

\* The loop of lines 804-809 after an awaited executeSearch.
ForceNext(t) ==
  /\ tasks[t].pc = "force_next"
  /\ tasks' = [tasks EXCEPT ![t] =
       Continue(@, SkipNoScraper(scrapers, Tail(tasks[t].todo)), "force_next")]
  /\ UNCHANGED <<attempts, cancelled, shutdown, cron, userStates, http, dbinit, seen, registry, paging>>
  /\ UNCHANGED <<search_queries, products, notifications, deliveries, jobs, timers,
                 lastExecutionTimes, watchForNewQueriesJob, scrapers, isInitialized,
                 nextTimer, ops, booted, last>>

\* Scheduler.cancelAllJobs (lines 506-526) is called by scheduleAllActiveQueries
\* (lines 432-435) once the scrapers are initialized; it also stops the poll.
scheduleAllActiveQueries(t) ==
  /\ ~booted
  /\ FreeSlot(t)
  /\ booted' = TRUE
  /\ scrapers' = IF isInitialized THEN scrapers ELSE InitializedScrapers
  /\ isInitialized' = TRUE
  /\ jobs' = [q \in QueryIds |-> 0]
  /\ timers' = {x \in timers : \A q \in QueryIds : jobs[q] # x.h}
  /\ lastExecutionTimes' = {}
  /\ watchForNewQueriesJob' = FALSE
  /\ tasks' = [tasks EXCEPT ![t] = [Idle EXCEPT !.kind = "bootstrap", !.pc = "boot_query"]]
  /\ UNCHANGED <<attempts, cancelled, shutdown, cron, userStates, http, dbinit, seen, registry, paging>>
  /\ UNCHANGED <<search_queries, products, notifications, deliveries, nextTimer,
                 ops, last>>

\* Lines 438-451: the select returns and the loop calls scheduleQuery.
BootQuery(t) ==
  /\ tasks[t].pc = "boot_query"
  /\ LET loop == ScheduleLoop(jobs, timers, scrapers, Rows(ActiveQueryIds, 1)) IN
     /\ jobs' = loop.jobs
     /\ timers' = loop.timers
     /\ tasks' = [tasks EXCEPT ![t] = Continue(@, loop.todo, "arm")]
  /\ UNCHANGED <<attempts, cancelled, shutdown, cron, userStates, http, dbinit, seen, registry, paging>>
  /\ UNCHANGED <<search_queries, products, notifications, deliveries,
                 lastExecutionTimes, watchForNewQueriesJob, scrapers, isInitialized,
                 nextTimer, ops, booted, last>>

\* TelegramBot.createSearchQuery (lines 419-436): insert the new row.
createSearchQuery(t, row) ==
  /\ ops < MaxOps
  /\ FreeSlot(t)
  /\ search_queries[row.id] = NoQuery
  /\ \A q \in QueryIds : q < row.id => search_queries[q] # NoQuery
  /\ search_queries' = [search_queries EXCEPT ![row.id] = row]
  /\ tasks' = [tasks EXCEPT ![t] =
       [Idle EXCEPT !.kind = "create", !.pc = "read", !.query = row]]
  /\ ops' = ops + 1
  /\ UNCHANGED <<attempts, cancelled, shutdown, cron, userStates, http, dbinit, seen, registry, paging>>
  /\ UNCHANGED <<products, notifications, deliveries, jobs, timers,
                 lastExecutionTimes, watchForNewQueriesJob, scrapers, isInitialized,
                 nextTimer, booted, last>>

\* Lines 439-448: read the row back and call scheduleQuery with it; without an
\* adapter scheduleQuery returns at once and the conversation state is cleared.
ReadBack(t) ==
  /\ tasks[t].pc = "read"
  /\ LET query == search_queries[tasks[t].query.id]
         loop == ScheduleLoop(jobs, timers, scrapers, <<query>>)
     IN /\ jobs' = loop.jobs
        /\ timers' = loop.timers
        /\ tasks' = [tasks EXCEPT ![t] = Continue(@, loop.todo, "arm")]
        /\ userStates' = IF loop.todo = <<>> THEN Deleted(userStates, query.userId)
                          ELSE userStates
  /\ UNCHANGED <<attempts, cancelled, shutdown, cron, http, dbinit, seen, registry, paging>>
  /\ UNCHANGED <<search_queries, products, notifications, deliveries,
                 lastExecutionTimes, watchForNewQueriesJob, scrapers, isInitialized,
                 nextTimer, ops, booted, last>>

\* A call of the public Scheduler.cancelJob.
CancelJob(queryId) ==
  /\ ops < MaxOps
  /\ jobs[queryId] # 0
  /\ ops' = ops + 1
  /\ LET c == cancelJob(jobs, timers, queryId) IN
     /\ jobs' = c.jobs
     /\ timers' = c.timers
  /\ UNCHANGED <<attempts, cancelled, shutdown, cron, userStates, http, dbinit, seen, registry, paging>>
  /\ UNCHANGED <<search_queries, products, notifications, deliveries,
                 lastExecutionTimes, watchForNewQueriesJob, scrapers, isInitialized,
                 tasks, nextTimer, booted, last>>

\* ------------------------------------------------------- specifications
\* Upstream items the adapters return in the model.
A100 == MarktplaatsItem("a", "FIXED", 10000)
A90 == MarktplaatsItem("a", "FIXED", 9000)
B100 == MarktplaatsItem("b", "FIXED", 10000)

\* Results of scraper.search under Spec: the two queries are on one retailer
\* and their listings overlap in item a.
Results == [q \in QueryIds |-> IF q = 1 THEN {<<A90, B100>>} ELSE {<<A100>>}]

\* Stores the process can start on: a query that never ran and one that ran
\* in an earlier process life; the second row may not exist yet.
InitStores ==
  {[q \in QueryIds |-> IF q = 1 THEN q1 ELSE IF q = 2 THEN q2 ELSE NoQuery] :
     q1 \in {SearchQuery(1, 1, FALSE, TRUE, TRUE, 10),
             SearchQuery(1, 1, TRUE, FALSE, TRUE, 0)},
     q2 \in {NoQuery, SearchQuery(2, 2, FALSE, TRUE, TRUE, 10)}}

\* Rows the bot's creation conversation inserts.
NewQueries == {SearchQuery(q, 1, FALSE, TRUE, TRUE, 10) : q \in QueryIds}

\* No query is on the wall clock: intervalMinutes 0, no firing yet.
NoCron == [intervalMinutes |-> 0, minute |-> 0, lastFiring |-> Null, gap |-> 0]

\* No request has been made to the web API.
NoExchange == [endpoint |-> "", principal |-> 0, userId |-> 0, status |-> 0, rows |-> {}]

\* No initializeScrapers call is in progress and the factory was never called.
NoRegistry ==
  [calls |-> [r \in {LIDL, MARKTPLAATS, VINTED} |-> 0],
   instance |-> [r \in {LIDL, MARKTPLAATS, VINTED} |-> 0],
   init |-> [c \in {"bootstrap", "poll"} |-> [pc |-> "idle", todo |-> <<>>]]]

\* No scraper.search invocation is followed page by page.
NoPaging ==
  [retailerId |-> 0, total |-> 0, allowed |-> 0, pc |-> "idle", page |-> 0,
   pagesToFetch |-> 0, requested |-> <<>>, got |-> {}, pending |-> {},
   discovery |-> "none"]

\* initializeDatabase has returned from its first attempt: every table exists.
Initialized ==
  [attempt |-> 1, pc |-> "returned", table |-> 0, slept |-> 0,
   tables |-> {"users", "retailers", "search_queries", "products",
               "notifications", "user_tokens"}]

NoExecution ==
  [query |-> 0, fetched |-> <<>>, aborted |-> FALSE, after |-> <<>>]

\* The state after `new Scheduler(createScraper, telegramBot)` (lines 388-397).
InitOn(stores) ==
  /\ search_queries \in stores
  /\ products = <<>>
  /\ notifications = <<>>
  /\ deliveries = {}
  /\ jobs = [q \in QueryIds |-> 0]
  /\ timers = {}
  /\ lastExecutionTimes = {}
  /\ watchForNewQueriesJob = TRUE
  /\ scrapers = {}
  /\ isInitialized = FALSE
  /\ tasks = [t \in TaskIds |-> Idle]
  /\ nextTimer = 1
  /\ ops = 0
  /\ booted = FALSE
  /\ last = NoExecution
  /\ attempts = {}
  /\ cancelled = {}
  /\ shutdown = "running"
  /\ cron = NoCron
  /\ userStates = [u \in Users |-> NoState]
  /\ http = NoExchange
  /\ dbinit = Initialized
  /\ seen = [q \in QueryIds |-> {}]
  /\ registry = NoRegistry
  /\ paging = NoPaging

Init == InitOn(InitStores)

Next ==
  \/ \E t \in TaskIds : Search(t, Results)
  \/ \E t \in TaskIds : Lookup(t)
  \/ \E t \in TaskIds : Update(t)
  \/ \E t \in TaskIds : Insert(t)
  \/ \E t \in TaskIds : createNotification(t)
  \/ \E t \in TaskIds : sendImmediateNotification(t)
  \/ \E t \in TaskIds : Stamp(t)
  \/ \E t \in TaskIds : Arm(t)
  \/ \E t \in TaskIds : TimerFire(t)
  \/ \E t \in TaskIds : TimerDone(t)
  \/ \E t \in TaskIds : PollFire(t)
  \/ \E t \in TaskIds : PollSchedule(t)
  \/ \E t \in TaskIds, u \in Users : forceRunAllQueries(t, u)
  \/ \E t \in TaskIds : ForceNext(t)
  \/ \E t \in TaskIds : scheduleAllActiveQueries(t)
  \/ \E t \in TaskIds : BootQuery(t)
  \/ \E t \in TaskIds, row \in NewQueries : createSearchQuery(t, row)
  \/ \E t \in TaskIds : ReadBack(t)
  \/ \E q \in QueryIds : CancelJob(q)

Spec == Init /\ [][Next]_vars

\* Startup followed by a few timer firings and force runs: the executions of
\* SpecRace overlap, and nothing but executions touches the tables.
MaxRaceOps == 1      \* timer firings and force runs under SpecRace

NextRace ==
  \/ \E t \in TaskIds : Search(t, Results)
  \/ \E t \in TaskIds : Lookup(t)
  \/ \E t \in TaskIds : Update(t)
  \/ \E t \in TaskIds : Insert(t)
  \/ \E t \in TaskIds : createNotification(t)
  \/ \E t \in TaskIds : sendImmediateNotification(t)
  \/ \E t \in TaskIds : Stamp(t)
  \/ \E t \in TaskIds : Arm(t)
  \/ \E t \in TaskIds : ops < MaxRaceOps /\ TimerFire(t)
  \/ \E t \in TaskIds : TimerDone(t)
  \/ \E t \in TaskIds, u \in Users : ops < MaxRaceOps /\ forceRunAllQueries(t, u)
  \/ \E t \in TaskIds : ForceNext(t)
  \/ \E t \in TaskIds : scheduleAllActiveQueries(t)
  \/ \E t \in TaskIds : BootQuery(t)

SpecRace == Init /\ [][NextRace]_vars

\* One operation at a time: the executions of SpecSeq never overlap.
MaxSeqOps == 1       \* timer firings and force runs after startup under SpecSeq

A91 == MarktplaatsItem("a", "FIXED", 9100)
A85 == MarktplaatsItem("a", "FIXED", 8500)
A0 == MarktplaatsItem("a", "FIXED", 0)
ABid == MarktplaatsItem("a", "FAST_BID", 10000)
B50 == MarktplaatsItem("b", "FIXED", 5000)
B48 == MarktplaatsItem("b", "FIXED", 4800)

\* Results of scraper.search under SpecSeq: item a at several prices or turned
\* into a bidding item, alone or followed by item b.
SeqResults ==
  [q \in QueryIds |->
     {<<a>> : a \in {A100, A91, A90, A85, A0, ABid}}
       \cup {<<a, b>> : a \in {A100, A91, A90, A85, A0, ABid}, b \in {B50, B48}}]

\* One stored query under every notification policy, run before or never run.
SeqStores ==
  {[q \in QueryIds |-> IF q = 1 THEN SearchQuery(1, 1, scraped, onNew, onDrop, thr)
                       ELSE NoQuery] :
     scraped \in BOOLEAN, onNew \in BOOLEAN, onDrop \in BOOLEAN, thr \in {0, 10}}

Quiet == \A t \in TaskIds : Free(t)

InitSeq == InitOn(SeqStores)

NextSeq ==
  \/ \E t \in TaskIds : Search(t, SeqResults)
  \/ \E t \in TaskIds : Lookup(t)
  \/ \E t \in TaskIds : Update(t)
  \/ \E t \in TaskIds : Insert(t)
  \/ \E t \in TaskIds : createNotification(t)
  \/ \E t \in TaskIds : sendImmediateNotification(t)
  \/ \E t \in TaskIds : Stamp(t)
  \/ \E t \in TaskIds : Arm(t)
  \/ \E t \in TaskIds : Quiet /\ ops < MaxSeqOps /\ TimerFire(t)
  \/ \E t \in TaskIds : TimerDone(t)
  \/ \E t \in TaskIds, u \in Users : Quiet /\ ops < MaxSeqOps /\ forceRunAllQueries(t, u)
  \/ \E t \in TaskIds : ForceNext(t)
  \/ \E t \in TaskIds : scheduleAllActiveQueries(t)
  \/ \E t \in TaskIds : BootQuery(t)

SpecSeq == InitSeq /\ [][NextSeq]_vars

\* ----------------------------------------------- executions, as observed
\* The execution of task t has returned to its caller, which has not gone on.
HasReturned(t) == tasks[t].pc \in RetPcs

\* The index in fetched of the listing task t wrote last (0 when none yet):
\* during notify and send it is the head of items, otherwise the one before it.
WrittenUpTo(t) ==
  IF tasks[t].pc \in {"notify", "send"} \/ (HasReturned(t) /\ tasks[t].aborted)
  THEN Len(tasks[t].fetched) - Len(tasks[t].items) + 1
  ELSE IF tasks[t].pc \in {"lookup", "stamp"} \/ HasReturned(t)
  THEN Len(tasks[t].fetched) - Len(tasks[t].items)
  ELSE 0

HasProduct(P, listing) == FindProduct(P, listing.retailerId, listing.externalId) # NoRow

\* ------------------------------------------------------------------ C1
\* C1: at no time are two executions of the same query id in progress at once,
\* whichever triggers started them (the immediate run of scheduleQuery, a timer
\* firing, the discovery poll, forceRunAllQueries).
SingleFlight ==
  \A t, u \in TaskIds, q \in QueryIds :
    t # u => ~(Executing(t, q) /\ Executing(u, q))

\* ------------------------------------------------------------------ C2
\* C2: a timer firing for a query whose previous execution has not completed
\* starts no execution (it is skipped, not queued).
OverlappingFiringSkipped ==
  [][\A q \in QueryIds :
       (\E u \in TaskIds : Executing(u, q)) =>
         \A t \in TaskIds :
           ~(Free(t) /\ tasks'[t].kind = "timer" /\ tasks'[t].query.id = q)]_vars

\* ------------------------------------------------------------------ C3
\* C3: the first-ever execution of a query (lastScrapedAt null) whose fetch
\* returned N listings with distinct external ids leaves a stored product for
\* each of them, creates no notification row and attempts no delivery.
FirstRunPersistsAllSilently ==
  \A t \in TaskIds :
    (HasReturned(t) /\ tasks[t].firstEver /\ tasks[t].isFirstRun
       /\ tasks[t].fetched # <<>>)
    => /\ \A i \in 1..Len(tasks[t].fetched) : HasProduct(products, tasks[t].fetched[i])
       /\ tasks[t].nNew = 0 /\ tasks[t].nDrop = 0

UniqueExternalId ==
  \A i, j \in 1..Len(products) :
    (products[i].retailerId = products[j].retailerId
       /\ products[i].externalId = products[j].externalId) => i = j

\* C9 witness: two executions of different queries overlapped on a listing both
\* had looked up as absent, and the later insert was rejected.
OverlappingInsertRejected ==
  \E t, u \in TaskIds :
    /\ t # u /\ HasReturned(t) /\ tasks[t].aborted /\ tasks[t].existing = NoRow
    /\ tasks[u].kind # "idle" /\ tasks[u].query.id # tasks[t].query.id
    /\ \E i \in 1..WrittenUpTo(u) :
         tasks[u].fetched[i].externalId = Head(tasks[t].items).externalId

\* ----------------------------------------------------------------- C10
\* C10: on each way a query enters ACTIVE (bulk scheduling at startup, the
\* discovery poll, creation through the bot) exactly one execution of the query
\* has been run and awaited when its recurring timer is armed.
OneExecutionBeforeArming ==
  \A t \in TaskIds : tasks[t].pc = "arm" => tasks[t].nExec = 1

\* ------------------------------------------------------- C4, C5, C6, C8
\* Task t has just taken a listing through the existing-product branch.
Resighted(t) ==
  /\ tasks[t].pc \in {"lookup", "stamp"}
  /\ tasks[t].existing # NoRow /\ tasks[t].productId = tasks[t].existing.id
  /\ WrittenUpTo(t) > 0

Fresh(t) == tasks[t].fetched[WrittenUpTo(t)]

\* The PRICE_DROP row created for the listing task t has just handled.
DropRow(t) ==
  /\ tasks[t].notifId # 0
  /\ notifications[tasks[t].notifId] =
       [id |-> tasks[t].notifId, userId |-> tasks[t].query.userId,
        productId |-> tasks[t].existing.id, searchQueryId |-> tasks[t].query.id,
        notificationType |-> "PRICE_DROP", isRead |-> FALSE]

\* The fetched listings of task t whose price is below the price stored before
\* the execution started (the table the previous execution left).
Lowered(t) ==
  {i \in 1..Len(tasks[t].fetched) :
     LET stored == FindProduct(last.after, tasks[t].fetched[i].retailerId,
                               tasks[t].fetched[i].externalId)
     IN stored # NoRow /\ tasks[t].fetched[i].price < stored.price}

LoweredBy(t, percent) ==
  {i \in Lowered(t) :
     LET stored == FindProduct(last.after, tasks[t].fetched[i].retailerId,
                               tasks[t].fetched[i].externalId)
     IN (stored.price - tasks[t].fetched[i].price) * 100 = percent * stored.price}

\* C4: for a query with notifyOnPriceDrops and threshold T that scheduleQuery
\* scheduled on its first run, the next timer firing in which exactly one stored
\* listing is lower by exactly T percent creates exactly one PRICE_DROP row; if
\* it is lower by T-1 percent the run creates none.
SecondRunNotifiesAtThreshold ==
  \A t \in TaskIds :
    (/\ tasks[t].kind = "timer" /\ tasks[t].pc = "stamp"
     /\ tasks[t].query.notifyOnPriceDrops
     /\ tasks[t].query.priceDropThresholdPercent > 0
     /\ ~tasks[t].query.lastScrapedAt
     /\ last.query = tasks[t].query.id /\ ~last.aborted
     /\ Cardinality(Lowered(t)) = 1)
    => /\ LoweredBy(t, tasks[t].query.priceDropThresholdPercent) = Lowered(t)
            => tasks[t].nDrop = 1
       /\ LoweredBy(t, tasks[t].query.priceDropThresholdPercent - 1) = Lowered(t)
            => tasks[t].nDrop = 0

BidNeverDrops ==
  \A t \in TaskIds :
    (Resighted(t) /\ Fresh(t).priceType = "FAST_BID") => ~DropRow(t)

\* C8: an execution on the listing set the previous execution of the same query
\* fetched, with nothing in between, creates no notification row and leaves
\* every product's price and previous price as the previous execution left them.
RerunChangesNothing ==
  \A t \in TaskIds :
    (/\ tasks[t].pc = "stamp" /\ tasks[t].fetched # <<>>
     /\ last.query = tasks[t].query.id /\ ~last.aborted
     /\ last.fetched = tasks[t].fetched)
    => /\ tasks[t].nNew = 0 /\ tasks[t].nDrop = 0
       /\ Len(products) = Len(last.after)
       /\ \A i \in 1..Len(products) :
            /\ products[i].price = last.after[i].price
            /\ products[i].oldPrice = last.after[i].oldPrice

\* C8 witness: a second execution on the same two listings, one of which has a
\* previous price, has finished its loop.
RerunOnSameListings ==
  \E t \in TaskIds :
    /\ tasks[t].pc = "stamp" /\ Len(tasks[t].fetched) = 2
    /\ last.query = tasks[t].query.id /\ ~last.aborted
    /\ last.fetched = tasks[t].fetched
    /\ ~tasks[t].isFirstRun /\ tasks[t].query.notifyOnPriceDrops
    /\ tasks[t].query.notifyOnNew

\* ================================================================= C11
\* The poll callback of lines 533-576 as node-schedule runs it: once a minute
\* for as long as the job is armed (PollFire is the same callback, counted in
\* ops).
startWatchingForNewQueries(t) ==
  /\ watchForNewQueriesJob
  /\ FreeSlot(t)
  /\ LET S == IF isInitialized THEN scrapers ELSE InitializedScrapers
         scheduledQueryIds == {q \in QueryIds : jobs[q] # 0}
         newQueries == Rows(ActiveQueryIds \ scheduledQueryIds, 1)
     IN /\ scrapers' = S
        /\ isInitialized' = TRUE
        /\ tasks' = [tasks EXCEPT ![t] =
             Continue([Idle EXCEPT !.kind = "poll"], SkipNoScraper(S, newQueries),
                      "poll_sched")]
  /\ UNCHANGED <<attempts, cancelled, shutdown, cron, userStates, http, dbinit, seen, registry, paging>>
  /\ UNCHANGED <<search_queries, products, notifications, deliveries, jobs, timers,
                 lastExecutionTimes, watchForNewQueriesJob, nextTimer, ops, booted,
                 last>>

\* A row written to search_queries by something other than the bot's creation
\* conversation (the table is shared with whoever holds the connection string):
\* the scheduler is not told.
InsertQuery(row) ==
  /\ search_queries[row.id] = NoQuery
  /\ \A q \in QueryIds : q < row.id => search_queries[q] # NoQuery
  /\ search_queries' = [search_queries EXCEPT ![row.id] = row]
  /\ UNCHANGED <<attempts, cancelled, shutdown, cron, userStates, http, dbinit, seen, registry, paging>>
  /\ UNCHANGED <<products, notifications, deliveries, jobs, timers,
                 lastExecutionTimes, watchForNewQueriesJob, scrapers, isInitialized,
                 tasks, nextTimer, ops, booted, last>>

\* The steps of the call chain in slot t under SpecLive.
LiveStep(t) ==
  \/ Search(t, Results)
  \/ Lookup(t)
  \/ Update(t)
  \/ Insert(t)
  \/ createNotification(t)
  \/ sendImmediateNotification(t)
  \/ Stamp(t)
  \/ Arm(t)
  \/ PollSchedule(t)
  \/ BootQuery(t)

\* A poll body ends within the minute: the poll does not fire into a call
\* chain that is still running.
NextLive ==
  \/ \E t \in TaskIds : LiveStep(t)
  \/ \E t \in TaskIds : Quiet /\ startWatchingForNewQueries(t)
  \/ \E t \in TaskIds : scheduleAllActiveQueries(t)
  \/ \E row \in NewQueries : InsertQuery(row)

\* The process is never shut down.  The event loop runs every continuation that
\* is ready, node-schedule fires the poll for as long as it is armed, and
\* bootstrap calls scheduleAllActiveQueries; rows are inserted or not.
SpecLive ==
  /\ Init
  /\ [][NextLive]_vars
  /\ \A t \in TaskIds : WF_vars(LiveStep(t))
  /\ WF_vars(\E t \in TaskIds : Quiet /\ startWatchingForNewQueries(t))
  /\ WF_vars(\E t \in TaskIds : scheduleAllActiveQueries(t))

\* An active query of an active user with an adapter and no entry in jobs.
Unscheduled(q) ==
  /\ q \in ActiveQueryIds
  /\ search_queries[q].retailerId \in InitializedScrapers
  /\ jobs[q] = 0

\* C11: while the process runs, every active query of an active user that is
\* not in the scheduled set and whose retailer has an adapter is eventually
\* scheduled (by the discovery poll, when nothing else schedules it).
UnscheduledEventuallyScheduled ==
  \A q \in QueryIds : Unscheduled(q) ~> (jobs[q] # 0)

\* ================================================================= C12
MaxCancelOps == 2    \* timer firings under SpecCancel

\* A call of the public Scheduler.cancelJob (lines 497-504) for a query one of
\* whose executions is in progress.  cancelled records the call: under
\* SpecCancel scheduleQuery is invoked once per query, before any execution of
\* the query, so no schedule operation on the query follows the cancel.
cancelJobWhileExecuting(queryId) ==
  /\ \E t \in TaskIds : Executing(t, queryId)
  /\ queryId \notin cancelled
  /\ LET c == cancelJob(jobs, timers, queryId) IN
     /\ jobs' = c.jobs
     /\ timers' = c.timers
  /\ cancelled' = cancelled \cup {queryId}
  /\ UNCHANGED <<userStates, http, dbinit, seen, registry, paging>>
  /\ UNCHANGED <<search_queries, products, notifications, deliveries,
                 lastExecutionTimes, watchForNewQueriesJob, scrapers, isInitialized,
                 tasks, nextTimer, ops, booted, last, attempts, shutdown, cron>>

NextCancel ==
  \/ \E t \in TaskIds : Search(t, Results)
  \/ \E t \in TaskIds : Lookup(t)
  \/ \E t \in TaskIds : Update(t)
  \/ \E t \in TaskIds : Insert(t)
  \/ \E t \in TaskIds : createNotification(t)
  \/ \E t \in TaskIds : sendImmediateNotification(t)
  \/ \E t \in TaskIds : Stamp(t)
  \/ \E t \in TaskIds : Arm(t)
  \/ \E t \in TaskIds : ops < MaxCancelOps /\ TimerFire(t)
  \/ \E t \in TaskIds : TimerDone(t)
  \/ \E t \in TaskIds : scheduleAllActiveQueries(t)
  \/ \E t \in TaskIds : BootQuery(t)
  \/ \E q \in QueryIds : cancelJobWhileExecuting(q)

\* Startup, timer firings and cancelJob calls during executions.
SpecCancel == Init /\ [][NextCancel]_vars

\* C12: once cancelJob(queryId) has been called during an execution of the
\* query (the immediate run of scheduleQuery or a timer-driven run), the query
\* is not in the scheduled set and no timer of the query is armed, so that no
\* later firing starts an execution of it.
CancelledDuringRunStaysCancelled ==
  \A q \in cancelled :
    /\ jobs[q] = 0
    /\ \A x \in timers : x.query.id # q

\* ================================================================= C13
MaxInterval == 61    \* largest number typed into the interval prompt
MaxMinute == 125     \* minutes of wall clock under SpecCron

\* Texts sent to the interval prompt: "skip", a text parseInt(input, 10) reads
\* as NaN, or a numeral with the whole number parseInt reads from it.
IntervalInputs ==
  {[text |-> "skip", minutes |-> 0], [text |-> "abc", minutes |-> 0]}
    \cup {[text |-> "numeral", minutes |-> n] : n \in (0 - 1)..MaxInterval}

\* The minute field */k of the rule of line 477: node-schedule runs the job at
\* every minute of the hour in 0, k, 2k, ... (<= 59), and at no other time.
CronMatches(k, minute) == ((minute % 60) % k) = 0

\* TelegramBot.handleIntervalInput (lines 314-337): "skip" takes the default,
\* a number below 1 or a non-number is rejected with a reply, anything else is
\* accepted; the row is created with it and scheduleQuery arms */k.
handleIntervalInput(input) ==
  /\ cron.intervalMinutes = 0
  /\ cron' = IF input.text = "skip"
             THEN [cron EXCEPT !.intervalMinutes = defaultIntervalMinutes]
             ELSE IF input.text # "numeral" \/ input.minutes < 1 THEN cron
             ELSE [cron EXCEPT !.intervalMinutes = input.minutes]
  /\ UNCHANGED <<userStates, http, dbinit, seen, registry, paging>>
  /\ UNCHANGED <<search_queries, products, notifications, deliveries, jobs, timers,
                 lastExecutionTimes, watchForNewQueriesJob, scrapers, isInitialized,
                 tasks, nextTimer, ops, booted, last, attempts, cancelled, shutdown>>

\* One minute of wall clock passes; the armed rule fires when it matches.
Tick ==
  /\ cron.minute < MaxMinute
  /\ LET now == cron.minute + 1 IN
     cron' = IF cron.intervalMinutes > 0 /\ CronMatches(cron.intervalMinutes, now)
             THEN [cron EXCEPT !.minute = now, !.lastFiring = now,
                               !.gap = IF cron.lastFiring = Null THEN 0
                                       ELSE now - cron.lastFiring]
             ELSE [cron EXCEPT !.minute = now]
  /\ UNCHANGED <<userStates, http, dbinit, seen, registry, paging>>
  /\ UNCHANGED <<search_queries, products, notifications, deliveries, jobs, timers,
                 lastExecutionTimes, watchForNewQueriesJob, scrapers, isInitialized,
                 tasks, nextTimer, ops, booted, last, attempts, cancelled, shutdown>>

NextCron ==
  \/ \E input \in IntervalInputs : handleIntervalInput(input)
  \/ Tick

\* One query's interval, typed at any minute, and its timer on the wall clock.
SpecCron == Init /\ [][NextCron]_vars

\* C13: for every accepted intervalMinutes = k >= 1, consecutive timer firings
\* of the query are exactly k minutes apart.
FiringsExactlyIntervalApart ==
  cron.gap # 0 => cron.gap = cron.intervalMinutes

\* ======================================================= C14 .. C18
MaxFailOps == 2      \* timer firings under SpecFail

\* Mutant of Caught: the exception leaves executeSearch and ends the call chain.
CaughtRethrown(t, why) ==
  /\ tasks' = [tasks EXCEPT ![t] = Idle]
  /\ last' = [query |-> tasks[t].query.id, fetched |-> tasks[t].fetched,
              aborted |-> TRUE, after |-> products]

\* The catch of lines 731-733: whatever is thrown inside executeSearch is
\* logged, and executeSearch returns to its caller.
Caught(t, why) ==
  Returned(t, [tasks[t] EXCEPT !.aborted = TRUE, !.failed = why], products)

\* MarktplaatsScraper.search when a request or JSON.parse throws: the error is
\* logged and rethrown into executeSearch.
SearchFails(t) ==
  /\ tasks[t].pc = "search"
  /\ tasks[t].query.retailerId = MARKTPLAATS
  /\ Caught(t, "fetch")
  /\ UNCHANGED <<userStates, http, dbinit, seen, registry, paging>>
  /\ UNCHANGED <<search_queries, products, notifications, deliveries, jobs, timers,
                 lastExecutionTimes, watchForNewQueriesJob, scrapers, isInitialized,
                 nextTimer, ops, booted, attempts, cancelled, shutdown, cron>>

\* LidlScraper.search (lines 192-233): a request or parse that throws is caught
\* and answered with [], as is a search that matches nothing (the Lidl upstream
\* of the model has no matching product).
LidlSearch(t) ==
  /\ tasks[t].pc = "search"
  /\ tasks[t].query.retailerId = LIDL
  /\ \E ok \in BOOLEAN :
       tasks' = [tasks EXCEPT ![t] =
                   [@ EXCEPT !.fetched = <<>>, !.items = <<>>, !.pc = "stamp",
                             !.failed = IF ok THEN "" ELSE "fetch"]]
  /\ UNCHANGED <<userStates, http, dbinit, seen, registry, paging>>
  /\ UNCHANGED <<search_queries, products, notifications, deliveries, jobs, timers,
                 lastExecutionTimes, watchForNewQueriesJob, scrapers, isInitialized,
                 nextTimer, ops, booted, last, attempts, cancelled, shutdown, cron>>

\* A query on the store throws (connection lost, pool closed): the select of
\* line 628, the update of 639, the insert of 692 or the update of 723.
StoreFails(t) ==
  /\ tasks[t].pc \in {"lookup", "update", "insert", "stamp"}
  /\ Caught(t, "store")
  /\ UNCHANGED <<userStates, http, dbinit, seen, registry, paging>>
  /\ UNCHANGED <<search_queries, products, notifications, deliveries, jobs, timers,
                 lastExecutionTimes, watchForNewQueriesJob, scrapers, isInitialized,
                 nextTimer, ops, booted, attempts, cancelled, shutdown, cron>>

\* createNotification when its insert throws: logged and rethrown (lines
\* 232-235) into executeSearch, before sendImmediateNotification is reached.
createNotificationFails(t) ==
  /\ tasks[t].pc = "notify"
  /\ Caught(t, "notify")
  /\ UNCHANGED <<userStates, http, dbinit, seen, registry, paging>>
  /\ UNCHANGED <<search_queries, products, notifications, deliveries, jobs, timers,
                 lastExecutionTimes, watchForNewQueriesJob, scrapers, isInitialized,
                 nextTimer, ops, booted, attempts, cancelled, shutdown, cron>>

\* Mutant of sendFormattedMessage: a failed sendPhoto is not followed by a
\* text message.
sendFormattedMessageNoFallback(id, image, photoOk, textOk) ==
  IF image THEN {[id |-> id, via |-> "photo", ok |-> photoOk]}
  ELSE {[id |-> id, via |-> "text", ok |-> textOk]}

\* TelegramBot.sendFormattedMessage (lines 616-653): the calls it makes for
\* notification id.  With an http image URL it calls sendPhoto and, when that
\* throws, sendMessage with the text; without one it calls sendMessage.  What
\* the last call throws is logged (line 651).
sendFormattedMessage(id, image, photoOk, textOk) ==
  IF image
  THEN {[id |-> id, via |-> "photo", ok |-> photoOk]}
         \cup (IF photoOk THEN {} ELSE {[id |-> id, via |-> "text", ok |-> textOk]})
  ELSE {[id |-> id, via |-> "text", ok |-> textOk]}

\* sendImmediateNotification (lines 739-792) down to the Telegram calls of
\* TelegramBot.sendNotification (lines 658-674): the product has an image URL
\* or not, and each call succeeds or throws.  Nothing of it reaches
\* executeSearch, which goes on with the next listing.
sendNotification(t) ==
  /\ tasks[t].pc = "send"
  /\ LET notification == notifications[tasks[t].notifId]
         product == products[notification.productId]
     IN /\ deliveries' = deliveries \cup
             {[id |-> notification.id,
               priceDropPercentage |->
                 IF /\ notification.notificationType = "PRICE_DROP"
                    /\ product.oldPrice # Null /\ product.oldPrice # 0
                    /\ product.price # 0
                 THEN calculatePriceDropPercentage(product.oldPrice, product.price)
                 ELSE Null]}
        /\ \E image \in BOOLEAN, photoOk \in BOOLEAN, textOk \in BOOLEAN :
             attempts' = attempts
                           \cup sendFormattedMessage(notification.id, image, photoOk, textOk)
  /\ tasks' = [tasks EXCEPT ![t] = NextListing(@)]
  /\ UNCHANGED <<userStates, http, dbinit, seen, registry, paging>>
  /\ UNCHANGED <<search_queries, products, notifications, jobs, timers,
                 lastExecutionTimes, watchForNewQueriesJob, scrapers, isInitialized,
                 nextTimer, ops, booted, last, cancelled, shutdown, cron>>

\* NotificationManager.getUnreadNotifications (lines 238-271): the unread rows
\* of the user that join a product and a search query.
getUnreadNotifications(userId) ==
  {n \in 1..Len(notifications) :
     /\ notifications[n].userId = userId
     /\ ~notifications[n].isRead
     /\ notifications[n].productId \in 1..Len(products)
     /\ search_queries[notifications[n].searchQueryId] # NoQuery}

\* Results of scraper.search under SpecFail.
FailResults == [q \in QueryIds |-> {<<A100, B100>>, <<A90, B100>>}]

\* One stored query, on Marktplaats or on Lidl, never run or run in an earlier
\* process life, notifying on everything.
FailStores ==
  {[q \in QueryIds |->
      IF q = 1 THEN [SearchQuery(1, 1, scraped, TRUE, TRUE, 0) EXCEPT !.retailerId = r]
      ELSE NoQuery] :
     scraped \in BOOLEAN, r \in {LIDL, MARKTPLAATS}}

InitFail == InitOn(FailStores)

NextFail ==
  \/ \E t \in TaskIds : tasks[t].query.retailerId = MARKTPLAATS /\ Search(t, FailResults)
  \/ \E t \in TaskIds : SearchFails(t)
  \/ \E t \in TaskIds : LidlSearch(t)
  \/ \E t \in TaskIds : Lookup(t)
  \/ \E t \in TaskIds : Update(t)
  \/ \E t \in TaskIds : Insert(t)
  \/ \E t \in TaskIds : StoreFails(t)
  \/ \E t \in TaskIds : createNotification(t)
  \/ \E t \in TaskIds : createNotificationFails(t)
  \/ \E t \in TaskIds : sendNotification(t)
  \/ \E t \in TaskIds : Stamp(t)
  \/ \E t \in TaskIds : Arm(t)
  \/ \E t \in TaskIds : Quiet /\ ops < MaxFailOps /\ TimerFire(t)
  \/ \E t \in TaskIds : TimerDone(t)
  \/ \E t \in TaskIds : scheduleAllActiveQueries(t)
  \/ \E t \in TaskIds : BootQuery(t)

\* Startup and timer firings, one execution at a time, in which every fetch,
\* store query and Telegram call may fail.
SpecFail == InitFail /\ [][NextFail]_vars

\* ----------------------------------------------------------------- C14
\* C14: an execution whose adapter fetch failed or whose store write failed
\* leaves lastScrapedAt as it was (here: a query never run before stays
\* unstamped), so that only a fully successful execution advances it.
FailedRunLeavesLastScrapedAt ==
  \A t \in TaskIds :
    (HasReturned(t) /\ tasks[t].failed \in {"fetch", "store", "notify"}
       /\ tasks[t].firstEver)
    => ~search_queries[tasks[t].query.id].lastScrapedAt

\* ----------------------------------------------------------------- C15
\* C15: when processing one listing of a fetched batch fails (a store query or
\* the notification insert for that listing throws), every other listing of
\* the batch is still reconciled in the same execution: it has a product row
\* when the execution returns.
FailedListingSkipped ==
  \A t \in TaskIds :
    (HasReturned(t) /\ tasks[t].failed \in {"store", "notify"}
       /\ tasks[t].items # <<>>)
    => \A i \in 1..Len(tasks[t].fetched) :
         i # Len(tasks[t].fetched) - Len(tasks[t].items) + 1
           => HasProduct(products, tasks[t].fetched[i])

\* ----------------------------------------------------------------- C16
\* C16: whatever fails inside an execution (the adapter, a store query, the
\* notification insert), executeSearch returns to its caller: the step that
\* ends an execution continues the caller and changes neither the job table
\* nor the armed timers, and after a failed timer-driven run the query's timer
\* is still armed and in the job table, so its next firing starts an execution.
FailureStaysInsideExecuteSearch ==
  /\ [](\A t \in TaskIds :
          (HasReturned(t) /\ tasks[t].kind = "timer" /\ tasks[t].aborted)
          => \E x \in timers :
               x.query = tasks[t].query /\ jobs[tasks[t].query.id] = x.h)
  /\ [][\A t \in TaskIds :
          (tasks[t].pc \in ExecPcs /\ tasks'[t].pc \notin ExecPcs)
          => /\ tasks'[t].pc = tasks[t].ret
             /\ jobs' = jobs
             /\ timers' = timers]_vars

\* C16 witness: a timer-driven execution has failed, and the next firing of the
\* same query's timer has started a new execution.
NextFiringAfterFailedRun ==
  /\ ops = 2 /\ last.aborted
  /\ jobs[last.query] # 0
  /\ \E t \in TaskIds : tasks[t].kind = "timer" /\ Executing(t, last.query)

\* ----------------------------------------------------------------- C17
\* C17: every notification handed to the bot, and every Telegram call made for
\* it, is about a Notification row that is in the table, unread; and an
\* execution whose notification insert failed has attempted no delivery for
\* that event (no row of this execution for the same product and type has been
\* handed over).
RowInsertedBeforeDelivery ==
  /\ \A d \in deliveries :
       d.id \in 1..Len(notifications) /\ ~notifications[d.id].isRead
  /\ \A a \in attempts :
       a.id \in 1..Len(notifications) /\ ~notifications[a.id].isRead
  /\ \A t \in TaskIds :
       (HasReturned(t) /\ tasks[t].failed = "notify")
       => \A d \in deliveries :
            (d.id > Len(notifications) - (tasks[t].nNew + tasks[t].nDrop))
            => ~(/\ notifications[d.id].productId = tasks[t].productId
                 /\ notifications[d.id].notificationType = tasks[t].ntype)

\* C17 witness: an execution has delivered the notification of its first
\* listing and then failed to insert the row of its second one.
DeliveredThenInsertFailed ==
  \E t \in TaskIds :
    /\ HasReturned(t) /\ tasks[t].failed = "notify"
    /\ tasks[t].nNew + tasks[t].nDrop = 1
    /\ Len(tasks[t].items) = 1
    /\ \E d \in deliveries : d.id = Len(notifications)
    /\ \E a \in attempts : a.id = Len(notifications)

\* ----------------------------------------------------------------- C18
\* The Telegram calls made for notification n have all failed.
Undelivered(n) ==
  /\ \E a \in attempts : a.id = n
  /\ \A a \in attempts : a.id = n => ~a.ok

\* C18: a failed sendPhoto for a notification is followed by a text-only
\* sendMessage for it; a notification none of whose sends succeeded keeps its
\* row, unread and returned by getUnreadNotifications for its user; and the
\* step that sends (or fails to send) leaves the notification rows alone and
\* takes the execution on to its next listing.
FailedDeliveryKeepsRowAndGoesOn ==
  /\ [](\A n \in 1..Len(notifications) :
          /\ [id |-> n, via |-> "photo", ok |-> FALSE] \in attempts
               => \E a \in attempts : a.id = n /\ a.via = "text"
          /\ Undelivered(n)
               => /\ ~notifications[n].isRead
                  /\ n \in getUnreadNotifications(notifications[n].userId))
  /\ [][\A t \in TaskIds :
          (tasks[t].pc = "send" /\ tasks'[t] # tasks[t])
          => /\ tasks'[t] = NextListing(tasks[t])
             /\ notifications' = notifications]_vars

\* C18 witness: the photo and the text of the first listing's notification both
\* failed, and the same execution has gone on to notify its second listing.
WentOnAfterFailedDelivery ==
  \E t \in TaskIds :
    /\ tasks[t].pc = "stamp" /\ Len(tasks[t].fetched) = 2
    /\ tasks[t].nNew + tasks[t].nDrop = 2
    /\ Len(notifications) = 2
    /\ [id |-> 1, via |-> "photo", ok |-> FALSE] \in attempts
    /\ [id |-> 1, via |-> "text", ok |-> FALSE] \in attempts
    /\ Undelivered(1)
    /\ \E a \in attempts : a.id = 2

\* ======================================================= C19, C20
MaxShutdownOps == 2  \* bot creations and timer firings under SpecShutdown

\* The shutdownHandler of index.ts (lines 294-308) up to its first wait:
\* scheduler.cancelAllJobs() (NotificationManager.ts lines 506-526), then
\* telegramBot.stop(), which waits for nothing, then db.destroy() is called and
\* awaited.  The handler is registered when scheduleAllActiveQueries has
\* returned, and it runs as a task of its own on the event loop: no
\* continuation of a finished executeSearch is pending when it starts.
\* cancelled records the queries scheduleQuery had been called with before.
shutdownHandler ==
  /\ shutdown = "running"
  /\ booted
  /\ \A t \in TaskIds : tasks[t].kind # "bootstrap" /\ tasks[t].pc \notin RetPcs
  /\ jobs' = [q \in QueryIds |-> 0]
  /\ timers' = {x \in timers : \A q \in QueryIds : jobs[q] # x.h}
  /\ lastExecutionTimes' = {}
  /\ watchForNewQueriesJob' = FALSE
  /\ cancelled' = {q \in QueryIds : jobs[q] # 0}
                    \cup {tasks[t].query.id : t \in {u \in TaskIds : tasks[u].ret = "arm"}}
  /\ shutdown' = "closing"
  /\ UNCHANGED <<userStates, http, dbinit, seen, registry, paging>>
  /\ UNCHANGED <<search_queries, products, notifications, deliveries, scrapers,
                 isInitialized, tasks, nextTimer, ops, booted, last, attempts, cron>>

\* Lines 303-306: db.destroy() has resolved and process.exit(0) ends the process.
Exit ==
  /\ shutdown = "closing"
  /\ shutdown' = "exited"
  /\ UNCHANGED <<userStates, http, dbinit, seen, registry, paging>>
  /\ UNCHANGED <<search_queries, products, notifications, deliveries, jobs, timers,
                 lastExecutionTimes, watchForNewQueriesJob, scrapers, isInitialized,
                 tasks, nextTimer, ops, booted, last, attempts, cancelled, cron>>

\* The store answers queries until db.destroy() is called; from then on a query
\* that is already on a connection may complete and any other one throws.
Closed == shutdown # "running"

\* Until process.exit the event loop goes on running what is ready.
Alive == shutdown # "exited"

\* The bot takes no update once it is stopped, and nothing runs after exit.
NextShutdown ==
  \/ shutdownHandler
  \/ Exit
  \/ \E t \in TaskIds : Alive /\ Search(t, Results)
  \/ \E t \in TaskIds : Alive /\ Lookup(t)
  \/ \E t \in TaskIds : Alive /\ Update(t)
  \/ \E t \in TaskIds : Alive /\ Insert(t)
  \/ \E t \in TaskIds : Alive /\ Closed /\ StoreFails(t)
  \/ \E t \in TaskIds : Alive /\ createNotification(t)
  \/ \E t \in TaskIds : Alive /\ Closed /\ createNotificationFails(t)
  \/ \E t \in TaskIds : Alive /\ sendImmediateNotification(t)
  \/ \E t \in TaskIds : Alive /\ Stamp(t)
  \/ \E t \in TaskIds : Alive /\ Arm(t)
  \/ \E t \in TaskIds : Alive /\ ops < MaxShutdownOps /\ TimerFire(t)
  \/ \E t \in TaskIds : Alive /\ TimerDone(t)
  \/ \E t \in TaskIds : Alive /\ scheduleAllActiveQueries(t)
  \/ \E t \in TaskIds : Alive /\ BootQuery(t)
  \/ \E t \in TaskIds, row \in NewQueries :
       ~Closed /\ ops < MaxShutdownOps /\ createSearchQuery(t, row)
  \/ \E t \in TaskIds : Alive /\ ReadBack(t)

\* Startup, queries created through the bot, timer firings, and a shutdown.
SpecShutdown == Init /\ [][NextShutdown]_vars

\* C19: after cancelAllJobs has returned the discovery poll is stopped and, for
\* every query scheduleQuery had been called with before the cancel and not
\* since, the query is not in the scheduled set and no timer of it is armed
\* (so none fires).
NothingArmedAfterCancelAll ==
  Closed =>
    /\ ~watchForNewQueriesJob
    /\ \A q \in cancelled :
         /\ jobs[q] = 0
         /\ \A x \in timers : x.query.id # q

\* C20: once the storage connection is being closed no timer fires and starts
\* an execution (every query timer was stopped before db.destroy()).
NoTimerFiresOnClosedStore ==
  [][Closed =>
       \A t \in TaskIds : ~(Free(t) /\ tasks'[t].kind = "timer")]_vars

\* ================================================================= C21
MaxForceOps == 1     \* force runs under SpecForce

\* A query that ran in an earlier life of the process: stamped, its endpoint
\* stored, no notification wanted.
RanBefore(q, user) ==
  [SearchQuery(q, user, TRUE, FALSE, FALSE, 0) EXCEPT !.apiUrl = DiscoveredUrl]

\* Rows of SpecForce: a query of user 1 that forceRunAllQueries(1) has to run,
\* an inactive one, one on a retailer without an adapter, and one of user 2.
ForceRows(q) ==
  {RanBefore(q, 1),
   [RanBefore(q, 1) EXCEPT !.isActive = FALSE],
   [RanBefore(q, 1) EXCEPT !.retailerId = VINTED],
   RanBefore(q, 2)}

\* Query 1 is an active query of user 1 on Marktplaats; the others vary.
ForceStores ==
  {s \in [QueryIds -> UNION {ForceRows(q) : q \in QueryIds}] :
     /\ s[1] = RanBefore(1, 1)
     /\ \A q \in QueryIds : s[q] \in ForceRows(q)}

InitForce == InitOn(ForceStores)

\* Every fetch under SpecForce returns the one listing a.
ForceResults == [q \in QueryIds |-> {<<A100>>}]

NextForce ==
  \/ \E t \in TaskIds : Search(t, ForceResults)
  \/ \E t \in TaskIds : Lookup(t)
  \/ \E t \in TaskIds : Update(t)
  \/ \E t \in TaskIds : Insert(t)
  \/ \E t \in TaskIds : Stamp(t)
  \/ \E t \in TaskIds : Arm(t)
  \/ \E t \in TaskIds, u \in Users : ops < MaxForceOps /\ forceRunAllQueries(t, u)
  \/ \E t \in TaskIds : ForceNext(t)
  \/ \E t \in TaskIds : scheduleAllActiveQueries(t)
  \/ \E t \in TaskIds : BootQuery(t)

\* Startup and /test commands of both users, in any interleaving; the timers
\* that startup arms stay armed and none of them fires.
SpecForce == InitForce /\ [][NextForce]_vars

\* The queries forceRunAllQueries(u) has to run: the active queries of u whose
\* retailer has an adapter in Scheduler.scrapers.
Qualifying(u) ==
  {q \in QueryIds : /\ search_queries[q] # NoQuery
                    /\ search_queries[q].userId = u
                    /\ search_queries[q].isActive
                    /\ search_queries[q].retailerId \in scrapers}

\* The queries a force run still has to finish: the rows left in its loop that
\* have an adapter (the head is the one in execution).
PendingIds(task) ==
  {task.todo[i].id : i \in {j \in 1..Len(task.todo) : task.todo[j].retailerId \in scrapers}}

\* A force run is inside executeSearch for one of its pending queries, entered
\* as every other caller enters it, or it has ended when none is pending.
RunsPending(task) ==
  IF PendingIds(task) = {} THEN task = Idle
  ELSE /\ task.pc = "search" /\ task.ret = "force_next"
       /\ task.query.id \in PendingIds(task)
       /\ \E i \in 1..Len(task.todo) : task.todo[i] = task.query
       /\ task = executeSearch([Idle EXCEPT !.kind = "force", !.todo = task.todo],
                               task.query, "force_next")

\* C21: forceRunAllQueries(u) runs, through the executeSearch pipeline of the
\* timer-driven runs, exactly one execution for each active query of u whose
\* retailer has an adapter and none for any other query (the call starts with
\* exactly those queries pending, and each return of executeSearch takes the
\* finished query, and only it, off the pending ones), and no step of the run
\* changes the job table or an armed timer.
ForceRunsEachOwnActiveQueryOnce ==
  [][\A t \in TaskIds :
       /\ \A u \in Users :
            forceRunAllQueries(t, u) =>
              /\ PendingIds(tasks'[t]) = Qualifying(u)
              /\ RunsPending(tasks'[t])
              /\ UNCHANGED <<jobs, timers>>
       /\ ForceNext(t) =>
            /\ PendingIds(tasks'[t]) = PendingIds(tasks[t]) \ {tasks[t].query.id}
            /\ tasks[t].nExec = 1
            /\ RunsPending(tasks'[t])
       /\ (tasks[t].kind = "force" /\ tasks'[t] # tasks[t]) =>
            /\ UNCHANGED <<jobs, timers>>
            /\ tasks[t].pc \in ExecPcs \cup {"force_next"}]_vars

\* Witness of C21: a force run has finished the one query it had to run, while
\* the other query (inactive, without adapter or of the other user) has its
\* row and timers are armed.
ForceRunSkippedTheOther ==
  \E t \in TaskIds, q \in QueryIds :
    /\ tasks[t].kind = "force" /\ tasks[t].pc = "force_next"
    /\ PendingIds(tasks[t]) = {tasks[t].query.id}
    /\ q # tasks[t].query.id
    /\ search_queries[q] # NoQuery
    /\ q \notin Qualifying(tasks[t].query.userId)
    /\ timers # {}

\* ================================================================= C22
\* The awaited scraper.search of task t returns in this step after discovering
\* the endpoint (the query object it was given has none).
Discovers(t) ==
  /\ tasks[t].pc = "search"
  /\ tasks'[t].pc \in {"lookup", "stamp"}
  /\ NeedsDiscovery(tasks[t].query)

\* C22: once an execution of a query has discovered the endpoint and stored it
\* on the row of the query, no later execution of that query discovers it
\* again: discovery happens only while the row has no endpoint.
DiscoveredOnce ==
  [][\A t \in TaskIds :
       Discovers(t) => search_queries[tasks[t].query.id].apiUrl = ""]_vars

\* ================================================================= C23
\* Bearer tokens a request can carry: config.web.adminToken, an unexpired row
\* of user_tokens for each user, and a token that is in neither.
AdminToken == "admin-token"
UserTokens == [u \in Users |-> IF u = 1 THEN "token-1" ELSE "token-2"]
Tokens == {AdminToken, "expired"} \cup {UserTokens[u] : u \in Users}

\* database.validateUserToken (lines 673-684): the userId of the token's
\* unexpired row, Null without one.
validateUserToken(token) ==
  IF \E u \in Users : UserTokens[u] = token
  THEN CHOOSE u \in Users : UserTokens[u] = token
  ELSE Null

\* The request was answered 401 by the middleware.
NoUser == [id |-> 0, isAdmin |-> FALSE]

\* authenticateUser (index.ts lines 36-74): req.user for a bearer token.  The
\* users of the model have isAdmin false (the default of the column).
authenticateUser(token) ==
  IF token = AdminToken THEN [id |-> Null, isAdmin |-> TRUE]
  ELSE IF validateUserToken(token) = Null THEN NoUser
  ELSE [id |-> validateUserToken(token), isAdmin |-> FALSE]

\* Lines 137 and 179: req.query.userId || (req.user.isAdmin ? null : req.user.id).
\* A userId parameter that is absent is 0, and so is the null of the admin.
FilterUserId(userIdParam, user) ==
  IF userIdParam # 0 THEN userIdParam
  ELSE IF user.isAdmin THEN 0 ELSE user.id

\* The select of lines 138-147: the queries joined with their user (and their
\* retailer), all of them or those of one user.
QueriesOf(userId) ==
  {search_queries[q] :
     q \in {p \in QueryIds : /\ search_queries[p] # NoQuery
                             /\ search_queries[p].userId \in Users
                             /\ (userId = 0 \/ search_queries[p].userId = userId)}}

\* The select of lines 180-204: the notifications joined with their product,
\* query and user, all of them or those of one user.
NotificationsOf(userId) ==
  {notifications[i] :
     i \in {j \in 1..Len(notifications) :
              /\ notifications[j].productId \in 1..Len(products)
              /\ search_queries[notifications[j].searchQueryId] # NoQuery
              /\ (userId = 0 \/ notifications[j].userId = userId)}}

\* What an endpoint answers: 401 from the middleware, or 200 with the rows.
Answer(endpoint, token, userIdParam, rows) ==
  LET user == authenticateUser(token) IN
  [endpoint |-> endpoint, principal |-> user.id, userId |-> userIdParam,
   status |-> IF user = NoUser THEN 401 ELSE 200,
   rows |-> IF user = NoUser THEN {} ELSE rows]

\* GET /api/queries (index.ts lines 135-153).
GetQueries(token, userIdParam) ==
  /\ http' = Answer("queries", token, userIdParam,
                    QueriesOf(FilterUserId(userIdParam, authenticateUser(token))))
  /\ UNCHANGED <<search_queries, products, notifications, deliveries, jobs, timers,
                 lastExecutionTimes, watchForNewQueriesJob, scrapers, isInitialized,
                 tasks, nextTimer, ops, booted, last, attempts, cancelled, shutdown,
                 cron, userStates, dbinit, seen, registry, paging>>

\* GET /api/notifications (index.ts lines 177-212); the tables of the model stay
\* below the limit of 100 rows.
GetNotifications(token, userIdParam) ==
  /\ http' = Answer("notifications", token, userIdParam,
                    NotificationsOf(FilterUserId(userIdParam, authenticateUser(token))))
  /\ UNCHANGED <<search_queries, products, notifications, deliveries, jobs, timers,
                 lastExecutionTimes, watchForNewQueriesJob, scrapers, isInitialized,
                 tasks, nextTimer, ops, booted, last, attempts, cancelled, shutdown,
                 cron, userStates, dbinit, seen, registry, paging>>

\* Mutant of MarkedAllAsRead: the update has no isRead condition and flips the
\* flag.
MarkedAllAsReadFlipping(N, userId) ==
  [i \in DOMAIN N |->
     IF N[i].userId = userId THEN [N[i] EXCEPT !.isRead = ~N[i].isRead] ELSE N[i]]

\* The update of NotificationManager.markAllAsRead (lines 285-287):
\* where({userId, isRead: false}).update({isRead: true}).
MarkedAllAsRead(N, userId) ==
  [i \in DOMAIN N |->
     IF N[i].userId = userId /\ ~N[i].isRead THEN [N[i] EXCEPT !.isRead = TRUE]
     ELSE N[i]]

\* NotificationManager.markAllAsRead(userId), called by the bot for the user
\* who pressed read_all_notifications (TelegramBot.ts lines 676-689).
markAllAsRead(userId) ==
  /\ notifications' = MarkedAllAsRead(notifications, userId)
  /\ UNCHANGED <<search_queries, products, deliveries, jobs, timers,
                 lastExecutionTimes, watchForNewQueriesJob, scrapers, isInitialized,
                 tasks, nextTimer, ops, booted, last, attempts, cancelled, shutdown,
                 cron, userStates, http, dbinit, seen, registry, paging>>

\* Under SpecAccess query 1 is of user 1 and the other queries are of user 2;
\* all of them ran before and notify on new products.
AccessStores ==
  {[q \in QueryIds |->
      [RanBefore(q, IF q = 1 THEN 1 ELSE 2) EXCEPT !.notifyOnNew = TRUE]]}

AccessResults == [q \in QueryIds |-> IF q = 1 THEN {<<A100>>} ELSE {<<A100, B100>>}]

InitAccess == InitOn(AccessStores)

NextAccess ==
  \/ \E t \in TaskIds : Search(t, AccessResults)
  \/ \E t \in TaskIds : Lookup(t)
  \/ \E t \in TaskIds : Update(t)
  \/ \E t \in TaskIds : Insert(t)
  \/ \E t \in TaskIds : createNotification(t)
  \/ \E t \in TaskIds : sendImmediateNotification(t)
  \/ \E t \in TaskIds : Stamp(t)
  \/ \E t \in TaskIds : Arm(t)
  \/ \E t \in TaskIds : scheduleAllActiveQueries(t)
  \/ \E t \in TaskIds : BootQuery(t)
  \/ \E token \in Tokens, u \in {0} \cup Users : GetQueries(token, u)
  \/ \E token \in Tokens, u \in {0} \cup Users : GetNotifications(token, u)
  \/ \E u \in Users : markAllAsRead(u)

\* Startup with its first executions, while the web API is queried with every
\* token and userId parameter and users press read_all_notifications.
SpecAccess == InitAccess /\ [][NextAccess]_vars

\* C23: every row returned to a request to the queries or notifications
\* endpoint that is authenticated with a non-admin user's token is owned by
\* that user, whatever userId parameter the request carries.
NonAdminReadsOwnRowsOnly ==
  (http.status = 200 /\ http.principal \in Users)
    => \A row \in http.rows : row.userId = http.principal

\* ================================================================= C25
\* C25: markAllAsRead(u) is idempotent (applied to its own result it changes
\* nothing, and in its result every notification of u is read), and it leaves
\* the notifications of every other user as they were.
MarkAllAsReadIdempotent ==
  [][\A u \in Users :
       markAllAsRead(u) =>
         /\ MarkedAllAsRead(notifications', u) = notifications'
         /\ Len(notifications') = Len(notifications)
         /\ \A i \in 1..Len(notifications) :
              IF notifications[i].userId = u
              THEN notifications'[i] = [notifications[i] EXCEPT !.isRead = TRUE]
              ELSE notifications'[i] = notifications[i]]_vars

\* Witness of C25: the notifications of one user have been marked read while
\* another user has an unread one.
MarkedForOneUserOnly ==
  \E i, j \in 1..Len(notifications) :
    /\ notifications[i].isRead
    /\ notifications[j].userId # notifications[i].userId
    /\ ~notifications[j].isRead

\* ================================================================= C24
MaxBotOps == 1       \* queries created through the bot under SpecBot

\* Texts sent to the interval prompt under SpecBot (see IntervalInputs).
BotIntervalInputs ==
  {[text |-> "skip", minutes |-> 0], [text |-> "abc", minutes |-> 0]}
    \cup {[text |-> "numeral", minutes |-> n] : n \in {0, 1}}

\* Texts sent to the threshold prompt: "skip", a text parseInt reads as NaN, or
\* a numeral with the whole number parseInt reads from it.
ThresholdInputs ==
  {[text |-> "skip", minutes |-> 0], [text |-> "abc", minutes |-> 0]}
    \cup {[text |-> "numeral", minutes |-> n] : n \in {0, 100, 101}}

\* Mutant of AcceptedInterval: an interval of 0 minutes is accepted.
AcceptedIntervalFromZero(input) ==
  IF input.text = "skip" THEN defaultIntervalMinutes
  ELSE IF input.text # "numeral" \/ input.minutes < 0 THEN Null
  ELSE input.minutes

\* Lines 319-331 of handleIntervalInput: the interval the prompt accepts, Null
\* when the text is rejected with a reply.
AcceptedInterval(input) ==
  IF input.text = "skip" THEN defaultIntervalMinutes
  ELSE IF input.text # "numeral" \/ input.minutes < 1 THEN Null
  ELSE input.minutes

\* Lines 398-410 of handlePriceDropThreshold: the threshold the prompt accepts
\* (0 for the undefined of "skip"), Null when the text is rejected.
AcceptedThreshold(input) ==
  IF input.text = "skip" THEN 0
  ELSE IF input.text # "numeral" \/ input.minutes < 1 \/ input.minutes > 100 THEN Null
  ELSE input.minutes

\* this.userStates.set(id, {state, data}); nothing else changes.
SetState(u, state, data) ==
  /\ userStates' = [userStates EXCEPT ![u] = [state |-> state, data |-> data]]
  /\ UNCHANGED <<search_queries, products, notifications, deliveries, jobs, timers,
                 lastExecutionTimes, watchForNewQueriesJob, scrapers, isInitialized,
                 tasks, nextTimer, ops, booted, last, attempts, cancelled, shutdown,
                 cron, http, dbinit, seen, registry, paging>>

\* TelegramBot.handleRetailerSelection (lines 262-285), on a retailer_ button:
\* the retailer has to have a row.
handleRetailerSelection(u, retailerId) ==
  /\ retailerId \in {LIDL, MARKTPLAATS, VINTED}
  /\ SetState(u, "awaiting_search_query", [NoData EXCEPT !.retailerId = retailerId])

\* TelegramBot.handleSearchQueryInput (lines 287-312): a text of fewer than two
\* characters is answered with a reply only.
handleSearchQueryInput(u, searchText) ==
  /\ userStates[u].state = "awaiting_search_query"
  /\ IF searchText = "f" THEN UNCHANGED vars
     ELSE SetState(u, "awaiting_interval",
                   [userStates[u].data EXCEPT !.searchText = searchText])

\* TelegramBot.detectRetailerFromUrl (lines 743-760) on the addresses of the
\* model.
detectRetailerFromUrl(url) == IF url = SearchUrl THEN MARKTPLAATS ELSE 0

\* TelegramBot.handleProductUrl (lines 698-740): a text that starts with http
\* is taken in every state of the conversation (lines 105-109).
handleProductUrl(u, url) ==
  /\ detectRetailerFromUrl(url) # 0
  /\ SetState(u, "awaiting_interval",
              [NoData EXCEPT !.retailerId = detectRetailerFromUrl(url),
                             !.searchText = url])

\* TelegramBot.handleIntervalInput (lines 314-350) on the conversation of u.
awaiting_interval(u, input) ==
  /\ userStates[u].state = "awaiting_interval"
  /\ IF AcceptedInterval(input) = Null THEN UNCHANGED vars
     ELSE SetState(u, "awaiting_notification_preferences",
                   [userStates[u].data EXCEPT !.intervalMinutes = AcceptedInterval(input)])

\* The row createSearchQuery builds (lines 424-433) and the id the insert gives
\* it: the lowest id without a row.
newQuery(u, data, threshold) ==
  [SearchQuery(CHOOSE q \in QueryIds :
                 /\ search_queries[q] = NoQuery
                 /\ \A p \in QueryIds : p < q => search_queries[p] # NoQuery,
               u, FALSE, data.notifyOnNew, data.notifyOnPriceDrops, threshold)
     EXCEPT !.retailerId = data.retailerId,
            !.searchText = data.searchText,
            !.intervalMinutes = data.intervalMinutes]

HasFreeId == \E q \in QueryIds : search_queries[q] = NoQuery

\* TelegramBot.handleNotificationPreferences (lines 352-391), reached from a
\* notif_ button in the state awaiting_notification_preferences only (lines
\* 161-165): with price drops the threshold is asked for, otherwise the query
\* is created.
handleNotificationPreferences(t, u, type) ==
  /\ userStates[u].state = "awaiting_notification_preferences"
  /\ LET data == [userStates[u].data EXCEPT
                    !.notifyOnNew = type \in {"notif_new_only", "notif_both"},
                    !.notifyOnPriceDrops = type \in {"notif_price_only", "notif_both"}]
     IN IF data.notifyOnPriceDrops
        THEN SetState(u, "awaiting_price_drop_threshold", data)
        ELSE /\ HasFreeId
             /\ ops < MaxBotOps
             /\ createSearchQuery(t, newQuery(u, data, 0))

\* TelegramBot.handlePriceDropThreshold (lines 393-417).
handlePriceDropThreshold(t, u, input) ==
  /\ userStates[u].state = "awaiting_price_drop_threshold"
  /\ IF AcceptedThreshold(input) = Null THEN UNCHANGED vars
     ELSE /\ HasFreeId
          /\ ops < MaxBotOps
          /\ createSearchQuery(t, newQuery(u, userStates[u].data, AcceptedThreshold(input)))

\* Under SpecBot the table of queries starts empty and no listing matches.
BotStores == {[q \in QueryIds |-> NoQuery]}
BotResults == [q \in QueryIds |-> {<<>>}]

\* The state after bootstrap on the empty table: scheduleAllActiveQueries has
\* initialized the scrapers and scheduled nothing.
InitBot ==
  /\ search_queries \in BotStores
  /\ products = <<>>
  /\ notifications = <<>>
  /\ deliveries = {}
  /\ jobs = [q \in QueryIds |-> 0]
  /\ timers = {}
  /\ lastExecutionTimes = {}
  /\ watchForNewQueriesJob = FALSE
  /\ scrapers = InitializedScrapers
  /\ isInitialized = TRUE
  /\ tasks = [t \in TaskIds |-> Idle]
  /\ nextTimer = 1
  /\ ops = 0
  /\ booted = TRUE
  /\ last = NoExecution
  /\ attempts = {}
  /\ cancelled = {}
  /\ shutdown = "running"
  /\ cron = NoCron
  /\ userStates = [u \in Users |-> NoState]
  /\ http = NoExchange
  /\ dbinit = Initialized
  /\ seen = [q \in QueryIds |-> {}]
  /\ registry = NoRegistry
  /\ paging = NoPaging

\* The user who talks to the bot under SpecBot (userStates keeps one
\* conversation per user, and no handler reads another user's entry).
BotUsers == {1}

NextBot ==
  \/ \E u \in BotUsers : handleRetailerSelection(u, LIDL)
  \/ \E u \in BotUsers, text \in {"f", Keywords} : handleSearchQueryInput(u, text)
  \/ \E u \in BotUsers : handleProductUrl(u, SearchUrl)
  \/ \E u \in BotUsers, input \in BotIntervalInputs : awaiting_interval(u, input)
  \/ \E t \in TaskIds, u \in BotUsers,
        type \in {"notif_new_only", "notif_price_only", "notif_both"} :
       handleNotificationPreferences(t, u, type)
  \/ \E t \in TaskIds, u \in BotUsers, input \in ThresholdInputs :
       handlePriceDropThreshold(t, u, input)
  \/ \E t \in TaskIds : ReadBack(t)
  \/ \E t \in TaskIds : tasks[t].query.retailerId = MARKTPLAATS /\ Search(t, BotResults)
  \/ \E t \in TaskIds : LidlSearch(t)
  \/ \E t \in TaskIds : Stamp(t)
  \/ \E t \in TaskIds : Arm(t)

\* The user picks Lidl or sends a Marktplaats address, and sends texts and
\* presses buttons in any order;
\* each created query is scheduled with its immediate execution.
SpecBot == InitBot /\ [][NextBot]_vars

maxRetries == 5

\* The tables initializeDatabase creates, in the order it creates them.
CreateOrder ==
  <<"users", "retailers", "search_queries", "products", "notifications">>

\* The first attempt is about to ask whether the products table exists.
Attempting(tables) ==
  [attempt |-> 1, pc |-> "exists", table |-> 0, slept |-> 0, tables |-> tables]

\* The steps of one attempt that wait for the database, each of which
\* can throw.
TryPcs == {"exists", "create", "migrate"}

\* The catch block without the wait: the next attempt starts at once.
catchWithoutWait(d) ==
  IF d.attempt < maxRetries
  THEN [d EXCEPT !.pc = "exists", !.table = 0, !.attempt = d.attempt + 1]
  ELSE [d EXCEPT !.pc = "thrown", !.table = 0]

\* The catch block: wait before the next attempt, or rethrow when this
\* was the last one.
catchAttempt(d) ==
  IF d.attempt < maxRetries
  THEN [d EXCEPT !.pc = "sleep", !.table = 0]
  ELSE [d EXCEPT !.pc = "thrown", !.table = 0]

\* What no step of initializeDatabase touches.
DbInitFrame ==
  UNCHANGED <<search_queries, products, notifications, deliveries, jobs,
              timers, lastExecutionTimes, watchForNewQueriesJob, scrapers,
              isInitialized, tasks, nextTimer, ops, booted, last, attempts,
              cancelled, cron, userStates, http, seen, registry, paging>>

\* const exists = await db.schema.hasTable('products')
hasProductsTable ==
  /\ dbinit.pc = "exists"
  /\ dbinit' = IF "products" \in dbinit.tables
               THEN [dbinit EXCEPT !.pc = "migrate"]
               ELSE [dbinit EXCEPT !.pc = "create", !.table = 1]
  /\ UNCHANGED shutdown
  /\ DbInitFrame

\* One table of the creation block: created unless it exists already.
createTable ==
  /\ dbinit.pc = "create"
  /\ dbinit' =
       [dbinit EXCEPT
          !.tables = @ \cup {CreateOrder[dbinit.table]},
          !.pc = IF dbinit.table = Len(CreateOrder) THEN "migrate" ELSE "create",
          !.table = IF dbinit.table = Len(CreateOrder) THEN 0 ELSE @ + 1]
  /\ UNCHANGED shutdown
  /\ DbInitFrame

\* await migrateDatabase(); return
migrateDatabase ==
  /\ dbinit.pc = "migrate"
  /\ dbinit' = [dbinit EXCEPT !.tables = @ \cup {"user_tokens"},
                              !.pc = "returned"]
  /\ UNCHANGED shutdown
  /\ DbInitFrame

\* A database call of the attempt throws: the catch block runs.
InitThrows ==
  /\ dbinit.pc \in TryPcs
  /\ dbinit' = catchAttempt(dbinit)
  /\ UNCHANGED shutdown
  /\ DbInitFrame

\* await sleep(retryDelay) returns and the loop starts the next attempt.
sleep ==
  /\ dbinit.pc = "sleep"
  /\ dbinit' = [dbinit EXCEPT !.pc = "exists", !.attempt = @ + 1,
                              !.slept = @ + 1]
  /\ UNCHANGED shutdown
  /\ DbInitFrame

\* bootstrap's catch block: process.exit(1).
bootstrapFails ==
  /\ dbinit.pc = "thrown"
  /\ shutdown = "running"
  /\ shutdown' = "exited"
  /\ UNCHANGED dbinit
  /\ DbInitFrame

\* The databases bootstrap can find: every set of tables an earlier,
\* possibly interrupted, initialisation can have left.
FoundTables ==
  {{CreateOrder[i] : i \in 1..n} : n \in 0..Len(CreateOrder)}
    \cup {Initialized.tables}

InitDbInit ==
  /\ search_queries = [q \in QueryIds |-> NoQuery]
  /\ products = <<>>
  /\ notifications = <<>>
  /\ deliveries = {}
  /\ jobs = [q \in QueryIds |-> 0]
  /\ timers = {}
  /\ lastExecutionTimes = {}
  /\ watchForNewQueriesJob = FALSE
  /\ scrapers = {}
  /\ isInitialized = FALSE
  /\ tasks = [t \in TaskIds |-> Idle]
  /\ nextTimer = 1
  /\ ops = 0
  /\ booted = FALSE
  /\ last = NoExecution
  /\ attempts = {}
  /\ cancelled = {}
  /\ shutdown = "running"
  /\ cron = NoCron
  /\ userStates = [u \in Users |-> NoState]
  /\ http = NoExchange
  /\ dbinit \in {Attempting(tables) : tables \in FoundTables}
  /\ seen = [q \in QueryIds |-> {}]
  /\ registry = NoRegistry
  /\ paging = NoPaging

NextDbInit ==
  \/ hasProductsTable
  \/ createTable
  \/ migrateDatabase
  \/ InitThrows
  \/ sleep
  \/ bootstrapFails

SpecDbInit == InitDbInit /\ [][NextDbInit]_vars

\* C26: initializeDatabase makes at most maxRetries attempts; a new
\* attempt starts only out of the wait that follows a failed one; once
\* it has returned it does nothing more; it throws only when the attempt
\* numbered maxRetries has failed, and only that makes the process exit.
AtMostFiveAttemptsWithWaits ==
  [][/\ dbinit'.attempt \in 1..maxRetries
     /\ dbinit'.attempt # dbinit.attempt =>
          /\ dbinit.pc = "sleep"
          /\ dbinit'.attempt = dbinit.attempt + 1
          /\ dbinit'.slept = dbinit.slept + 1
     /\ (dbinit'.pc = "sleep" /\ dbinit.pc # "sleep") =>
          dbinit.pc \in TryPcs /\ dbinit.attempt < maxRetries
     /\ dbinit.pc = "returned" => UNCHANGED <<dbinit, shutdown>>
     /\ (dbinit'.pc = "thrown" /\ dbinit.pc # "thrown") =>
          /\ dbinit.pc \in TryPcs
          /\ dbinit.attempt = maxRetries
          /\ dbinit.slept = maxRetries - 1
     /\ shutdown' # shutdown => dbinit.pc = "thrown"]_vars

\* C26 witness: the fifth attempt succeeded and left every table in place,
\* after four failed attempts and four waits.
ReturnedAtLastAttempt ==
  /\ dbinit.pc = "returned"
  /\ dbinit.attempt = maxRetries
  /\ dbinit.slept = maxRetries - 1
  /\ dbinit.tables = Initialized.tables

\* ---------------------------------------------------------------------
\* The query object of a timer-driven execution and the stored row
\* ---------------------------------------------------------------------

\* The fields of a query an execution acts on.
ActedOn(query) ==
  <<query.lastScrapedAt, query.notifyOnNew, query.notifyOnPriceDrops,
    query.priceDropThresholdPercent, query.apiUrl>>

\* C27: every execution a timer starts is given the query as it is stored
\* at that moment: its lastScrapedAt, notifyOnNew, notifyOnPriceDrops,
\* priceDropThresholdPercent and cached endpoint are those of the row.
TimerExecutesStoredState ==
  [][\A t \in TaskIds :
       (TimerFire(t) /\ search_queries[tasks'[t].query.id] # NoQuery) =>
         ActedOn(tasks'[t].query) = ActedOn(search_queries[tasks'[t].query.id])]_vars

\* ---------------------------------------------------------------------
\* Armed timers and the job table
\* ---------------------------------------------------------------------

\* C28: at any time every armed timer of a query is the one the job table
\* holds for that query id (so a query id has at most one armed timer, and
\* cancelJob and cancelAllJobs reach every armed timer).
EveryArmedTimerIsTheJob ==
  \A x \in timers : jobs[x.query.id] = x.h

\* ---------------------------------------------------------------------
\* Deleting a query through the bot
\* ---------------------------------------------------------------------

MaxDeleteOps == 1    \* timer firings under SpecDelete

\* A notification row refers to the query (the foreign key of
\* notifications.searchQueryId).
Referenced(searchId) ==
  \E i \in 1..Len(notifications) : notifications[i].searchQueryId = searchId

\* TelegramBot.handleDeleteSearch (lines 541-573): the row is deleted when
\* it is the user's own.  Whether the store enforces the foreign key of
\* the notifications that refer to the row depends on the database the
\* process runs on; when it does, the delete fails and the row stays.
handleDeleteSearch(u, searchId) ==
  /\ \E enforced \in BOOLEAN :
       search_queries' =
         IF /\ search_queries[searchId] # NoQuery
            /\ search_queries[searchId].userId = u
            /\ ~(enforced /\ Referenced(searchId))
         THEN [search_queries EXCEPT ![searchId] = NoQuery]
         ELSE search_queries
  /\ UNCHANGED <<products, notifications, deliveries, jobs, timers,
                 lastExecutionTimes, watchForNewQueriesJob, scrapers,
                 isInitialized, tasks, nextTimer, ops, booted, last>>
  /\ UNCHANGED <<attempts, cancelled, shutdown, cron, userStates, http,
                 dbinit, seen, registry, paging>>

\* Under SpecDelete query 1 is of user 1 and query 2, when stored, of user
\* 2; both ran in an earlier process life.
DeleteStores ==
  {[q \in QueryIds |-> IF q = 1 THEN [RanBefore(1, 1) EXCEPT !.notifyOnNew = onNew]
                       ELSE IF q = 2 THEN q2 ELSE NoQuery] :
     onNew \in BOOLEAN, q2 \in {NoQuery, RanBefore(2, 2)}}

DeleteResults == [q \in QueryIds |-> {<<A100>>}]

InitDelete == InitOn(DeleteStores)

NextDelete ==
  \/ \E t \in TaskIds : Search(t, DeleteResults)
  \/ \E t \in TaskIds : Lookup(t)
  \/ \E t \in TaskIds : Update(t)
  \/ \E t \in TaskIds : Insert(t)
  \/ \E t \in TaskIds : createNotification(t)
  \/ \E t \in TaskIds : sendImmediateNotification(t)
  \/ \E t \in TaskIds : Stamp(t)
  \/ \E t \in TaskIds : Arm(t)
  \/ \E t \in TaskIds : ops < MaxDeleteOps /\ TimerFire(t)
  \/ \E t \in TaskIds : TimerDone(t)
  \/ \E t \in TaskIds : scheduleAllActiveQueries(t)
  \/ \E t \in TaskIds : BootQuery(t)
  \/ \E u \in Users, searchId \in QueryIds : handleDeleteSearch(u, searchId)

\* Startup and timer firings while users delete queries from /mysearches.
SpecDelete == InitDelete /\ [][NextDelete]_vars

\* C29: every query with an armed timer is stored and active, and a timer
\* firing starts an execution only of a query that is stored and active.
ArmedQueriesAreStored ==
  [][/\ \A x \in timers' :
          /\ search_queries'[x.query.id] # NoQuery
          /\ search_queries'[x.query.id].isActive
     /\ \A t \in TaskIds :
          TimerFire(t) =>
            /\ search_queries[tasks'[t].query.id] # NoQuery
            /\ search_queries[tasks'[t].query.id].isActive]_vars

\* ---------------------------------------------------------------------
\* Listings that are new to a query
\* ---------------------------------------------------------------------

\* A NEW_PRODUCT notification exists for the owner of the query, the query
\* and the stored product of the listing with this external id.
NotifiedAsNew(query, externalId) ==
  \E i \in 1..Len(notifications) :
    /\ notifications[i].notificationType = "NEW_PRODUCT"
    /\ notifications[i].userId = query.userId
    /\ notifications[i].searchQueryId = query.id
    /\ products[notifications[i].productId].retailerId = query.retailerId
    /\ products[notifications[i].productId].externalId = externalId

\* C30: when an execution of a query with notifyOnNew that is past its
\* first run has returned without aborting, every listing of its fetch
\* that no earlier fetch of the same query returned has a NEW_PRODUCT
\* notification for the query's owner, whichever query stored the listing
\* first.
NewToQueryIsNotified ==
  \A t \in TaskIds :
    (/\ HasReturned(t) /\ ~tasks[t].aborted
     /\ tasks[t].query.notifyOnNew
     /\ ~tasks[t].isFirstRun /\ ~tasks[t].firstEver) =>
      \A externalId \in tasks[t].fresh : NotifiedAsNew(tasks[t].query, externalId)

\* ---------------------------------------------------------------------
\* The writes made for one listing
\* ---------------------------------------------------------------------

\* The fetched listings of task t for which the execution has written a
\* lowered price that the query's policy accepts as a drop (P is the
\* products table the execution leaves).
AcceptedDrops(t, P) ==
  {i \in Lowered(t) :
     LET listing == tasks[t].fetched[i]
         stored == FindProduct(last.after, listing.retailerId, listing.externalId)
     IN /\ P[stored.id].price = listing.price
        /\ NotifiesPriceDrop(tasks[t].isFirstRun, tasks[t].query, stored, listing)}

\* C31: when an execution returns, it has created a PRICE_DROP row for
\* every listing whose stored price it lowered and whose drop the query's
\* policy accepted (one execution at a time; the listings of a fetch are
\* distinct).
LoweredPriceHasItsRow ==
  [][\A t \in TaskIds :
       (~HasReturned(t) /\ tasks'[t].pc \in RetPcs) =>
         Cardinality(AcceptedDrops(t, products')) <= tasks'[t].nDrop]_vars

\* ---------------------------------------------------------------------
\* Overlapping executions of one query and one price change
\* ---------------------------------------------------------------------

MaxOverlapOps == 1   \* timer firings and force runs under SpecOverlap

\* The product row an earlier process life stored for upstream item a at
\* its price of then.
StoredA100 ==
  LET p == convertItemToProduct(A100)
  IN [id |-> 1, retailerId |-> p.retailerId, externalId |-> p.externalId,
      price |-> p.price, oldPrice |-> Null, priceType |-> p.priceType]

\* Query 1 ran before and notifies about every price drop.
OverlapStores ==
  {[q \in QueryIds |->
      IF q = 1 THEN [RanBefore(1, 1) EXCEPT !.notifyOnPriceDrops = TRUE]
      ELSE NoQuery]}

\* Since the last execution the upstream price of a has changed once, from
\* 100 to 90, and stays there.
OverlapResults == [q \in QueryIds |-> {<<A90>>, <<A90, B100>>}]

InitOverlap ==
  /\ search_queries \in OverlapStores
  /\ products = <<StoredA100>>
  /\ notifications = <<>>
  /\ deliveries = {}
  /\ jobs = [q \in QueryIds |-> 0]
  /\ timers = {}
  /\ lastExecutionTimes = {}
  /\ watchForNewQueriesJob = TRUE
  /\ scrapers = {}
  /\ isInitialized = FALSE
  /\ tasks = [t \in TaskIds |-> Idle]
  /\ nextTimer = 1
  /\ ops = 0
  /\ booted = FALSE
  /\ last = NoExecution
  /\ attempts = {}
  /\ cancelled = {}
  /\ shutdown = "running"
  /\ cron = NoCron
  /\ userStates = [u \in Users |-> NoState]
  /\ http = NoExchange
  /\ dbinit = Initialized
  /\ seen = [q \in QueryIds |-> {}]
  /\ registry = NoRegistry
  /\ paging = NoPaging

NextOverlap ==
  \/ \E t \in TaskIds : Search(t, OverlapResults)
  \/ \E t \in TaskIds : Lookup(t)
  \/ \E t \in TaskIds : Update(t)
  \/ \E t \in TaskIds : Insert(t)
  \/ \E t \in TaskIds : createNotification(t)
  \/ \E t \in TaskIds : sendImmediateNotification(t)
  \/ \E t \in TaskIds : Stamp(t)
  \/ \E t \in TaskIds : Arm(t)
  \/ \E t \in TaskIds : ops < MaxOverlapOps /\ TimerFire(t)
  \/ \E t \in TaskIds : TimerDone(t)
  \/ \E t \in TaskIds, u \in Users : ops < MaxOverlapOps /\ forceRunAllQueries(t, u)
  \/ \E t \in TaskIds : ForceNext(t)
  \/ \E t \in TaskIds : scheduleAllActiveQueries(t)
  \/ \E t \in TaskIds : BootQuery(t)

\* Startup on a store that holds a at its old price, with a timer firing
\* or a force run that may overlap another execution of the query.
SpecOverlap == InitOverlap /\ [][NextOverlap]_vars

\* The PRICE_DROP rows of a query for a product.
PriceDropRows(queryId, productId) ==
  {i \in 1..Len(notifications) :
     /\ notifications[i].notificationType = "PRICE_DROP"
     /\ notifications[i].searchQueryId = queryId
     /\ notifications[i].productId = productId}

\* C32: the one price change of listing a (100 to 90) has at most one
\* PRICE_DROP row for the query, however its executions overlap.
OneRowPerPriceChange ==
  \A q \in QueryIds : Cardinality(PriceDropRows(q, StoredA100.id)) <= 1

\* ---------------------------------------------------------------------
\* Price and previous price of a re-sighted product
\* ---------------------------------------------------------------------

\* C33: after the update of a stored product with a fetched listing the
\* stored price is the fresh price; oldPrice is the price stored before when
\* the fresh price is lower, and is what it was when the fresh price is
\* equal or higher.
PreviousPriceOnlyOnDrop ==
  [][\A t \in TaskIds :
       Update(t) =>
         LET existing == tasks[t].existing
             fresh == Head(tasks[t].items)
             updated == products'[existing.id]
         IN /\ updated.price = fresh.price
            /\ updated.oldPrice = IF fresh.price < existing.price
                                  THEN existing.price
                                  ELSE existing.oldPrice]_vars

\* ---------------------------------------------------------------------
\* initializeScrapers, step by step, and the adapter factory
\* ---------------------------------------------------------------------

\* The callers of initializeScrapers: bootstrap through
\* scheduleAllActiveQueries, and the callback of the discovery poll.
Callers == {"bootstrap", "poll"}

\* The rows of the retailers table, all active (database.ts 511-515).
ActiveRetailers == <<LIDL, MARKTPLAATS, VINTED>>

\* Lines 399-403: a caller enters initializeScrapers; it returns at once
\* when isInitialized is set and otherwise awaits the select on retailers.
initializeScrapers(c) ==
  /\ registry.init[c].pc = "idle"
  /\ IF c = "poll" THEN watchForNewQueriesJob ELSE ~booted
  /\ registry' = [registry EXCEPT
                    !.init[c].pc = IF isInitialized THEN "done" ELSE "select"]
  /\ UNCHANGED <<search_queries, products, notifications, deliveries, jobs,
                 timers, lastExecutionTimes, watchForNewQueriesJob, scrapers,
                 isInitialized, tasks, nextTimer, ops, booted, last, attempts,
                 cancelled, shutdown, cron, userStates, http, dbinit, seen,
                 paging>>

\* Line 408: the select on the retailers table returns.
selectRetailers(c) ==
  /\ registry.init[c].pc = "select"
  /\ registry' = [registry EXCEPT !.init[c] = [pc |-> "factory",
                                                todo |-> ActiveRetailers]]
  /\ UNCHANGED <<search_queries, products, notifications, deliveries, jobs,
                 timers, lastExecutionTimes, watchForNewQueriesJob, scrapers,
                 isInitialized, tasks, nextTimer, ops, booted, last, attempts,
                 cancelled, shutdown, cron, userStates, http, dbinit, seen,
                 paging>>

\* Lines 411-419 and 422: one awaited call of the factory (createScraper of
\* index.ts) returns; an adapter goes into the scrapers map, replacing the
\* one that is there; after the last retailer isInitialized is set.
scraperFactory(c) ==
  /\ registry.init[c].pc = "factory"
  /\ LET r == Head(registry.init[c].todo)
         rest == Tail(registry.init[c].todo)
         created == r \in InitializedScrapers
     IN /\ registry' =
             [registry EXCEPT
                !.calls[r] = @ + 1,
                !.instance[r] = IF created THEN registry.calls[r] + 1 ELSE @,
                !.init[c] = [pc |-> IF rest = <<>> THEN "done" ELSE "factory",
                             todo |-> rest]]
        /\ scrapers' = IF created THEN scrapers \cup {r} ELSE scrapers
        /\ isInitialized' = (isInitialized \/ rest = <<>>)
  /\ UNCHANGED <<search_queries, products, notifications, deliveries, jobs,
                 timers, lastExecutionTimes, watchForNewQueriesJob, tasks,
                 nextTimer, ops, booted, last, attempts, cancelled, shutdown,
                 cron, userStates, http, dbinit, seen, paging>>

RegistryStores ==
  {[q \in QueryIds |-> IF q = 1 THEN RanBefore(1, 1) ELSE q2] :
     q2 \in {NoQuery, RanBefore(2, 2)}}

RegistryResults == [q \in QueryIds |-> {<<A100>>}]

InitRegistry == InitOn(RegistryStores)

\* The caller's initializeScrapers call has returned.
Initialised(c) == isInitialized /\ registry.init[c].pc = "done"

NextRegistry ==
  \/ \E c \in Callers : initializeScrapers(c)
  \/ \E c \in Callers : selectRetailers(c)
  \/ \E c \in Callers : scraperFactory(c)
  \/ \E t \in TaskIds : Initialised("bootstrap") /\ scheduleAllActiveQueries(t)
  \/ \E t \in TaskIds : BootQuery(t)
  \/ \E t \in TaskIds : Initialised("poll") /\ PollFire(t)
  \/ \E t \in TaskIds : PollSchedule(t)
  \/ \E t \in TaskIds : Search(t, RegistryResults)
  \/ \E t \in TaskIds : Lookup(t)
  \/ \E t \in TaskIds : Update(t)
  \/ \E t \in TaskIds : Insert(t)
  \/ \E t \in TaskIds : Stamp(t)
  \/ \E t \in TaskIds : Arm(t)

\* The first firing of the discovery poll and startup's bulk scheduling,
\* each with its initializeScrapers call taken await by await.
SpecRegistry == InitRegistry /\ [][NextRegistry]_vars

\* C34: the factory is called at most once for each retailer, and an
\* adapter that is in the scrapers map is never replaced by another.
FactoryOncePerRetailer ==
  [][\A r \in {LIDL, MARKTPLAATS, VINTED} :
       /\ registry'.calls[r] <= 1
       /\ registry.instance[r] # 0 => registry'.instance[r] = registry.instance[r]]_vars

\* ---------------------------------------------------------------------
\* One scraper.search invocation, page request by page request
\* ---------------------------------------------------------------------

MaxTotal == 61       \* largest total count the upstream reports

PAGE_SIZE == 30
fetchsize == 48

\* Math.ceil(a / b) for a >= 0 and b > 0.
MathCeil(a, b) == (a + b - 1) \div b

Min(a, b) == IF a < b THEN a ELSE b

\* The upstream holds listings 1..total; a request with an offset is
\* answered with the listings of that page.
PageOf(size, offset, total) == {i \in 1..total : offset < i /\ i <= offset + size}

\* The page size the adapter of a retailer asks for.
PageSize(retailerId) == IF retailerId = LIDL THEN fetchsize ELSE PAGE_SIZE

\* search(query) is entered.  discovery tells what the query needs first:
\* "none" (Lidl, or a stored apiUrl), "fallback" (an address without '#')
\* or "browser" (an address with '#', looked up with puppeteer).
Searching(retailerId, total, allowed, discovery) ==
  [NoPaging EXCEPT !.retailerId = retailerId, !.total = total,
                   !.allowed = allowed, !.discovery = discovery, !.pc = "start"]

\* What no step of a search invocation touches, in a specification that
\* follows the invocation alone.
PagingFrame ==
  UNCHANGED <<search_queries, products, notifications, deliveries, jobs,
              timers, lastExecutionTimes, watchForNewQueriesJob, scrapers,
              isInitialized, tasks, nextTimer, ops, booted, last, attempts,
              cancelled, shutdown, cron, userStates, http, dbinit, seen,
              registry>>

\* part_002 lines 114-127 and part_001 lines 71-79: without '#' in the
\* address discoverApiUrl answers with the fallback URL at once.
search ==
  /\ paging.pc = "start"
  /\ paging' = [paging EXCEPT
                  !.pc = IF paging.discovery = "browser" THEN "goto" ELSE "first"]
  /\ PagingFrame

\* part_001 lines 81-104: page.goto answers, or throws at its timeout of
\* 30 s; the catch of line 128 then answers with the fallback URL.
gotoPage ==
  /\ paging.pc = "goto"
  /\ \E answered \in BOOLEAN :
       paging' = [paging EXCEPT !.pc = IF answered THEN "intercept" ELSE "first"]
  /\ PagingFrame

\* part_001 lines 22-45 and 106-124: the promise of interceptApiUrl is
\* resolved by the response handler or, at the latest, by its timer of
\* 10 s; either way discoverApiUrl answers with an URL.
interceptApiUrl ==
  /\ paging.pc = "intercept"
  /\ paging' = [paging EXCEPT !.pc = "first"]
  /\ PagingFrame

\* part_002 lines 139-163: the first page.  A request that throws (an
\* error answer, the timeout of 30 s, JSON.parse) leaves search through
\* its catch.
fetchFirstPage ==
  /\ paging.pc = "first"
  /\ paging.retailerId = MARKTPLAATS
  /\ \E answered \in BOOLEAN :
       paging' =
         IF answered
         THEN LET maxPages == MathCeil(paging.total, PAGE_SIZE)
                  pagesToFetch == Min(maxPages - 1, paging.allowed)
              IN [paging EXCEPT
                    !.requested = <<0>>,
                    !.got = PageOf(PAGE_SIZE, 0, paging.total),
                    !.pagesToFetch = pagesToFetch,
                    !.page = 1,
                    !.pc = IF pagesToFetch > 0 THEN "page" ELSE "returned"]
         ELSE [paging EXCEPT !.requested = <<0>>, !.pc = "thrown"]
  /\ PagingFrame

\* part_002 lines 168-178: one more page.
fetchPage ==
  /\ paging.pc = "page"
  /\ LET offset == paging.page * PAGE_SIZE IN
     \E answered \in BOOLEAN :
       paging' =
         IF answered
         THEN [paging EXCEPT
                 !.requested = Append(@, offset),
                 !.got = @ \cup PageOf(PAGE_SIZE, offset, paging.total),
                 !.pc = "delay"]
         ELSE [paging EXCEPT !.requested = Append(@, offset), !.pc = "thrown"]
  /\ PagingFrame

\* Mutant of AfterDelay: the promise of the delay is never resolved.
AfterDelayPending(p) == [p EXCEPT !.pc = "delay"]

\* part_002 lines 166 and 180-181: the delay of one second ends and the
\* loop goes on or ends.
AfterDelay(p) ==
  [p EXCEPT !.page = @ + 1,
            !.pc = IF p.page + 1 <= p.pagesToFetch THEN "page" ELSE "returned"]

delay ==
  /\ paging.pc = "delay"
  /\ paging' = AfterDelay(paging)
  /\ PagingFrame

\* LidlScraper.search lines 194-218: the first request and, when the
\* total exceeds the page size, the requests of all other pages at once.
\* A first request that throws is caught and answered with [].
lidlFirstPage ==
  /\ paging.pc = "first"
  /\ paging.retailerId = LIDL
  /\ \E answered \in BOOLEAN :
       paging' =
         IF answered
         THEN LET totalPages == MathCeil(paging.total, fetchsize)
                  more == IF paging.total > fetchsize THEN 1..(totalPages - 1) ELSE {}
              IN [paging EXCEPT
                    !.requested = <<0>> \o [i \in 1..Cardinality(more) |-> i * fetchsize],
                    !.got = PageOf(fetchsize, 0, paging.total),
                    !.pending = more,
                    !.pc = IF more = {} THEN "returned" ELSE "pages"]
         ELSE [paging EXCEPT !.requested = <<0>>, !.pc = "returned"]
  /\ PagingFrame

\* LidlScraper.fetchAdditionalPage (lines 235-244): one of the pages in
\* flight answers; a page that throws counts as [].  Promise.all is
\* resolved with the last of them.
fetchAdditionalPage(page) ==
  /\ paging.pc = "pages"
  /\ page \in paging.pending
  /\ \E answered \in BOOLEAN :
       paging' =
         [paging EXCEPT
            !.got = IF answered
                    THEN @ \cup PageOf(fetchsize, page * fetchsize, paging.total)
                    ELSE @,
            !.pending = @ \ {page},
            !.pc = IF paging.pending = {page} THEN "returned" ELSE "pages"]
  /\ PagingFrame

\* Every total the upstream can report up to MaxTotal, with every page
\* cap (maxAllowedPageNumber, absent counting as 0) that matters for it.
Searches ==
  {Searching(MARKTPLAATS, total, allowed, discovery) :
     total \in 0..MaxTotal, allowed \in 0..2,
     discovery \in {"none", "fallback", "browser"}}
    \cup {Searching(LIDL, total, 0, "none") : total \in 0..MaxTotal}

InitPaging ==
  /\ search_queries = [q \in QueryIds |-> NoQuery]
  /\ products = <<>>
  /\ notifications = <<>>
  /\ deliveries = {}
  /\ jobs = [q \in QueryIds |-> 0]
  /\ timers = {}
  /\ lastExecutionTimes = {}
  /\ watchForNewQueriesJob = FALSE
  /\ scrapers = InitializedScrapers
  /\ isInitialized = TRUE
  /\ tasks = [t \in TaskIds |-> Idle]
  /\ nextTimer = 1
  /\ ops = 0
  /\ booted = TRUE
  /\ last = NoExecution
  /\ attempts = {}
  /\ cancelled = {}
  /\ shutdown = "running"
  /\ cron = NoCron
  /\ userStates = [u \in Users |-> NoState]
  /\ http = NoExchange
  /\ dbinit = Initialized
  /\ seen = [q \in QueryIds |-> {}]
  /\ registry = NoRegistry
  /\ paging \in Searches

NextPaging ==
  \/ search
  \/ gotoPage
  \/ interceptApiUrl
  \/ fetchFirstPage
  \/ fetchPage
  \/ delay
  \/ lidlFirstPage
  \/ \E page \in 1..MaxTotal : fetchAdditionalPage(page)

SpecPaging == InitPaging /\ [][NextPaging]_vars

\* The offsets of all pages of a total (the first page is requested also
\* when the total is 0).
AllOffsets(size, total) ==
  [i \in 1..(IF total = 0 THEN 1 ELSE MathCeil(total, size)) |-> (i - 1) * size]

\* C35: a search invocation that has returned a list has requested the
\* offset of every page of the upstream total exactly once and returns
\* every listing of the upstream.
ReturnsCompleteResultSet ==
  paging.pc = "returned" =>
    /\ paging.requested = AllOffsets(PageSize(paging.retailerId), paging.total)
    /\ paging.got = 1..paging.total

\* ---------------------------------------------------------------------
\* Reconciliation on full product rows
\* ---------------------------------------------------------------------

MaxReconcileOps == 2 \* force runs under SpecReconcile

\* An upstream Marktplaats item with the fields the product row carries.
MarktplaatsListing(id, title, type, cents, cityName, distanceMeters) ==
  [itemId |-> id, title |-> title, priceType |-> type, priceCents |-> cents,
   cityName |-> cityName, distanceMeters |-> distanceMeters]

\* MarktplaatsScraper.convertItemToProduct with title, location, distance
\* and availability (part_002 lines 80-108).
convertListing(item) ==
  [retailerId |-> MARKTPLAATS,
   externalId |-> item.itemId,
   title |-> item.title,
   price |-> convertItemToProduct(item).price,
   priceType |-> item.priceType,
   location |-> IF item.cityName = "" THEN "Onbekend" ELSE item.cityName,
   distanceMeters |-> item.distanceMeters,
   isAvailable |-> TRUE]

\* An upstream Lidl item: availability.orderable and online.isOrderable are
\* "absent", "true" or "false".
LidlItem(id, title, price, orderable, isOrderable) ==
  [productId |-> id, title |-> title, price |-> price,
   orderable |-> orderable, isOrderable |-> isOrderable]

\* LidlScraper.processApiProduct (lines 395-427).  The product has no
\* priceType, location or distanceMeters.  An item without availability is
\* taken as available whatever online.isOrderable says.
processApiProduct(item) ==
  [retailerId |-> LIDL,
   externalId |-> item.productId,
   title |-> item.title,
   price |-> item.price,
   priceType |-> "",
   location |-> "",
   distanceMeters |-> Null,
   isAvailable |->
     IF item.orderable = "absent" THEN TRUE
     ELSE /\ item.orderable = "true"
          /\ (item.isOrderable # "absent" => item.isOrderable = "true")]

\* Mutant of UpdatedRow: the update also takes the title of the listing.
UpdatedRowWithTitle(row, existingProduct, newProduct, now) ==
  [UpdatedProduct([row EXCEPT !.price = existingProduct.price,
                              !.oldPrice = existingProduct.oldPrice],
                  newProduct)
     EXCEPT !.location = newProduct.location,
            !.distanceMeters = newProduct.distanceMeters,
            !.lastCheckedAt = now,
            !.title = newProduct.title]

\* The update of lines 639-648 on the stored row: the columns it names
\* take the values of the listing, oldPrice as UpdatedProduct computes it
\* from the row that the lookup read.
UpdatedRow(row, existingProduct, newProduct, now) ==
  [UpdatedProduct([row EXCEPT !.price = existingProduct.price,
                              !.oldPrice = existingProduct.oldPrice],
                  newProduct)
     EXCEPT !.location = newProduct.location,
            !.distanceMeters = newProduct.distanceMeters,
            !.lastCheckedAt = now]

\* The row of lines 692-696: the listing with both dates set to now.
InsertedRow(id, newProduct, now) ==
  [id |-> id, retailerId |-> newProduct.retailerId,
   externalId |-> newProduct.externalId, title |-> newProduct.title,
   price |-> newProduct.price, oldPrice |-> Null,
   priceType |-> newProduct.priceType, location |-> newProduct.location,
   distanceMeters |-> newProduct.distanceMeters,
   isAvailable |-> newProduct.isAvailable,
   discoveredAt |-> now, lastCheckedAt |-> now]

\* Line 622 with the full listings: the adapter of the query's retailer
\* answers with one of the results the upstream can give.
Fetch(t, results) ==
  /\ tasks[t].pc = "search"
  /\ \E newProducts \in results[tasks[t].query.retailerId] :
       /\ tasks' = [tasks EXCEPT ![t] =
                      [@ EXCEPT !.fetched = newProducts, !.items = newProducts,
                                !.fresh = {newProducts[i].externalId :
                                             i \in 1..Len(newProducts)}
                                          \ seen[tasks[t].query.id],
                                !.pc = IF Len(newProducts) > 0 THEN "lookup" ELSE "stamp"]]
       /\ seen' = [seen EXCEPT ![tasks[t].query.id] =
                      @ \cup {newProducts[i].externalId : i \in 1..Len(newProducts)}]
  /\ search_queries' = Cached(search_queries, tasks[t].query)
  /\ UNCHANGED <<attempts, cancelled, shutdown, cron, userStates, http, dbinit,
                 registry, paging>>
  /\ UNCHANGED <<products, notifications, deliveries, jobs, timers,
                 lastExecutionTimes, watchForNewQueriesJob, scrapers, isInitialized,
                 nextTimer, ops, booted, last>>

\* Lines 637-688 on the full row; the clock reads ops.
UpdateRow(t) ==
  /\ tasks[t].pc = "update"
  /\ LET task == tasks[t]
         newProduct == Head(task.items)
         existingProduct == task.existing
         decided == [task EXCEPT !.productId = existingProduct.id]
     IN /\ products' = [products EXCEPT ![existingProduct.id] =
                          UpdatedRow(@, existingProduct, newProduct, ops)]
        /\ tasks' = [tasks EXCEPT ![t] =
             IF NotifiesPriceDrop(task.isFirstRun, task.query, existingProduct, newProduct)
             THEN [decided EXCEPT !.pc = "notify", !.ntype = "PRICE_DROP"]
             ELSE NextListing(decided)]
  /\ UNCHANGED <<attempts, cancelled, shutdown, cron, userStates, http, dbinit, seen,
                 registry, paging>>
  /\ UNCHANGED <<search_queries, notifications, deliveries, jobs, timers,
                 lastExecutionTimes, watchForNewQueriesJob, scrapers, isInitialized,
                 nextTimer, ops, booted, last>>

\* Lines 689-716 on the full row.  The product of the Lidl adapter carries
\* queryId (LidlScraper.ts line 425), a column that the products table of
\* initializeDatabase (database.ts lines 552-572) does not have while
\* database.ts line 405 and index.ts line 165 take it to exist: the store
\* accepts the row or rejects it, and a rejected insert is caught at
\* line 731.
InsertRow(t) ==
  /\ tasks[t].pc = "insert"
  /\ LET task == tasks[t]
         newProduct == Head(task.items)
         row == InsertedRow(Len(products) + 1, newProduct, ops)
         decided == [task EXCEPT !.productId = row.id]
     IN \E accepted \in BOOLEAN :
          /\ newProduct.retailerId # LIDL => accepted
          /\ IF UniqueViolation(products, row) \/ ~accepted
             THEN /\ Returned(t, [task EXCEPT !.aborted = TRUE, !.failed = "store"],
                              products)
                  /\ UNCHANGED products
             ELSE /\ products' = Append(products, row)
                  /\ tasks' = [tasks EXCEPT ![t] =
                       IF NotifiesNew(task.isFirstRun, task.query)
                       THEN [decided EXCEPT !.pc = "notify", !.ntype = "NEW_PRODUCT"]
                       ELSE NextListing(decided)]
                  /\ UNCHANGED last
  /\ UNCHANGED <<attempts, cancelled, shutdown, cron, userStates, http, dbinit, seen,
                 registry, paging>>
  /\ UNCHANGED <<search_queries, notifications, deliveries, jobs, timers,
                 lastExecutionTimes, watchForNewQueriesJob, scrapers, isInitialized,
                 nextTimer, ops, booted>>

\* Under SpecReconcile user 1 has a Marktplaats query and a Lidl query that
\* ran before and notify on nothing.
ReconcileStores ==
  {[q \in QueryIds |->
      IF q = 1 THEN RanBefore(1, 1)
      ELSE IF q = 2 THEN [RanBefore(2, 1) EXCEPT !.retailerId = LIDL]
      ELSE NoQuery]}

\* What the upstreams answer under SpecReconcile: listing a as first seen,
\* listing a with another title, price, price type, city and distance, and
\* listings a and b; a Lidl item that can be ordered and one that cannot.
ReconcileResults ==
  [r \in {LIDL, MARKTPLAATS} |->
     IF r = MARKTPLAATS
     THEN {<<convertListing(MarktplaatsListing("a", "fiets", "FIXED", 10000, "Utrecht", 1))>>,
           <<convertListing(MarktplaatsListing("a", "fiets nieuw", "BID_FROM", 9000, "", 2))>>,
           <<convertListing(MarktplaatsListing("a", "fiets", "FIXED", 10000, "Utrecht", 1)),
             convertListing(MarktplaatsListing("b", "bel", "FIXED", 500, "Utrecht", 1))>>}
     ELSE {<<processApiProduct(LidlItem("l", "boor", 30, "true", "absent"))>>,
           <<processApiProduct(LidlItem("l", "boor", 30, "true", "false"))>>,
           <<processApiProduct(LidlItem("l", "boor", 30, "absent", "false"))>>}]

InitReconcile ==
  /\ search_queries \in ReconcileStores
  /\ products = <<>>
  /\ notifications = <<>>
  /\ deliveries = {}
  /\ jobs = [q \in QueryIds |-> 0]
  /\ timers = {}
  /\ lastExecutionTimes = {}
  /\ watchForNewQueriesJob = FALSE
  /\ scrapers = InitializedScrapers
  /\ isInitialized = TRUE
  /\ tasks = [t \in TaskIds |-> Idle]
  /\ nextTimer = 1
  /\ ops = 0
  /\ booted = TRUE
  /\ last = NoExecution
  /\ attempts = {}
  /\ cancelled = {}
  /\ shutdown = "running"
  /\ cron = NoCron
  /\ userStates = [u \in Users |-> NoState]
  /\ http = NoExchange
  /\ dbinit = Initialized
  /\ seen = [q \in QueryIds |-> {}]
  /\ registry = NoRegistry
  /\ paging = NoPaging

\* /test commands of user 1, each sent after the one before it has ended.
NextReconcile ==
  \/ \E t \in TaskIds :
       /\ ops < MaxReconcileOps
       /\ \A u \in TaskIds : Free(u)
       /\ forceRunAllQueries(t, 1)
  \/ \E t \in TaskIds : ForceNext(t)
  \/ \E t \in TaskIds : Fetch(t, ReconcileResults)
  \/ \E t \in TaskIds : Lookup(t)
  \/ \E t \in TaskIds : UpdateRow(t)
  \/ \E t \in TaskIds : InsertRow(t)
  \/ \E t \in TaskIds : Stamp(t)

SpecReconcile == InitReconcile /\ [][NextReconcile]_vars

\* C36: after an execution that ended without failure, every listing of
\* its fetch has a stored product whose isAvailable is true.
FetchedAreStoredAvailable ==
  (last.query # 0 /\ ~last.aborted) =>
    \A i \in 1..Len(last.fetched) :
      LET row == FindProduct(last.after, last.fetched[i].retailerId,
                             last.fetched[i].externalId)
      IN row # NoRow /\ row.isAvailable

\* The columns that reconciling a matching listing leaves alone.
Kept(row) ==
  [id |-> row.id, retailerId |-> row.retailerId, externalId |-> row.externalId,
   title |-> row.title, discoveredAt |-> row.discoveredAt,
   isAvailable |-> row.isAvailable]

\* C37: the update of a matching product leaves its id, retailerId,
\* externalId, title and discoveredAt and every other row as they were,
\* and no step of an execution removes or renumbers a product row.
ReconcileKeepsIdentity ==
  [][/\ Len(products') >= Len(products)
     /\ \A i \in 1..Len(products) : Kept(products'[i]) = Kept(products[i])
     /\ \A t \in TaskIds :
          UpdateRow(t) =>
            /\ Len(products') = Len(products)
            /\ \A i \in 1..Len(products) :
                 i # tasks[t].existing.id => products'[i] = products[i]]_vars

\* Witness of C37: the stored product a was matched by the listing with
\* another title, price, price type, city and distance at a later time.
MatchedWithOtherTitle ==
  /\ Len(products) >= 1
  /\ products[1].title = "fiets"
  /\ products[1].price = 90 /\ products[1].oldPrice = 100
  /\ products[1].priceType = "BID_FROM"
  /\ products[1].location = "Onbekend" /\ products[1].distanceMeters = 2
  /\ products[1].discoveredAt = 1 /\ products[1].lastCheckedAt = 2

\* ---------------------------------------------------------------------
\* The /notifications command
\* ---------------------------------------------------------------------

MaxPullOps == 2      \* /notifications commands under SpecPull

\* The ids of a set of rows in the order of the select (by id).
Ascending(ids) ==
  [k \in 1..Cardinality(ids) |->
     CHOOSE i \in ids : Cardinality({j \in ids : j < i}) = k - 1]

\* TelegramBot.handleNotifications (lines 575-587): the unread
\* notifications of the user are read; without any the user gets the
\* reply of line 583 and the handler returns.
handleNotifications(t, userId) ==
  /\ ops < MaxPullOps
  /\ FreeSlot(t)
  /\ LET unread == Ascending(getUnreadNotifications(userId)) IN
     tasks' = [tasks EXCEPT ![t] =
                 IF unread = <<>> THEN Idle
                 ELSE [Idle EXCEPT !.kind = "pull", !.pc = "pull_send",
                                   !.todo = unread, !.notifId = Head(unread)]]
  /\ ops' = ops + 1
  /\ UNCHANGED <<attempts, cancelled, shutdown, cron, userStates, http, dbinit, seen,
                 registry, paging>>
  /\ UNCHANGED <<search_queries, products, notifications, deliveries, jobs, timers,
                 lastExecutionTimes, watchForNewQueriesJob, scrapers, isInitialized,
                 nextTimer, booted, last>>

\* Lines 591-595: the awaited sendFormattedMessage for the notification at
\* hand.  It returns whether or not its last Telegram call threw.
sendPulled(t) ==
  /\ tasks[t].pc = "pull_send"
  /\ \E image \in BOOLEAN, photoOk \in BOOLEAN, textOk \in BOOLEAN :
       attempts' = attempts
                     \cup sendFormattedMessage(tasks[t].notifId, image, photoOk, textOk)
  /\ tasks' = [tasks EXCEPT ![t] = [@ EXCEPT !.pc = "pull_mark"]]
  /\ UNCHANGED <<cancelled, shutdown, cron, userStates, http, dbinit, seen,
                 registry, paging>>
  /\ UNCHANGED <<search_queries, products, notifications, deliveries, jobs, timers,
                 lastExecutionTimes, watchForNewQueriesJob, scrapers, isInitialized,
                 nextTimer, ops, booted, last>>

\* Lines 597-598 with NotificationManager.markAsRead (lines 273-281): the
\* row is set to read, or the update throws and is logged; the loop goes
\* on with the next notification or ends.
markAsRead(t) ==
  /\ tasks[t].pc = "pull_mark"
  /\ \E updated \in BOOLEAN :
       notifications' = IF updated
                        THEN [notifications EXCEPT ![tasks[t].notifId].isRead = TRUE]
                        ELSE notifications
  /\ tasks' = [tasks EXCEPT ![t] =
                 IF Len(@.todo) > 1
                 THEN [@ EXCEPT !.todo = Tail(@), !.notifId = @.todo[2],
                                !.pc = "pull_send"]
                 ELSE Idle]
  /\ UNCHANGED <<attempts, cancelled, shutdown, cron, userStates, http, dbinit, seen,
                 registry, paging>>
  /\ UNCHANGED <<search_queries, products, deliveries, jobs, timers,
                 lastExecutionTimes, watchForNewQueriesJob, scrapers, isInitialized,
                 nextTimer, ops, booted, last>>

\* Startup with its first executions under the store and the results of
\* SpecAccess, whose notifications stay unread, and /notifications
\* commands of both users.
NextPull ==
  \/ \E t \in TaskIds : Search(t, AccessResults)
  \/ \E t \in TaskIds : Lookup(t)
  \/ \E t \in TaskIds : Update(t)
  \/ \E t \in TaskIds : Insert(t)
  \/ \E t \in TaskIds : createNotification(t)
  \/ \E t \in TaskIds : sendImmediateNotification(t)
  \/ \E t \in TaskIds : Stamp(t)
  \/ \E t \in TaskIds : Arm(t)
  \/ \E t \in TaskIds : scheduleAllActiveQueries(t)
  \/ \E t \in TaskIds : BootQuery(t)
  \/ \E t \in TaskIds, u \in Users : handleNotifications(t, u)
  \/ \E t \in TaskIds : sendPulled(t)
  \/ \E t \in TaskIds : markAsRead(t)

InitPull == InitOn(AccessStores)

SpecPull == InitPull /\ [][NextPull]_vars

\* A Telegram call for the notification went through.
Delivered(id) == \E a \in attempts : a.id = id /\ a.ok

\* C38: a notification that the /notifications command has marked read
\* was delivered to the user by it.
ReadOnlyAfterDelivery ==
  \A n \in 1..Len(notifications) : notifications[n].isRead => Delivered(n)

\* ---------------------------------------------------------------------
\* An execution with its page requests
\* ---------------------------------------------------------------------

\* Totals the upstream reports under SpecEnds: no listing, one page, a
\* second page with one listing, and MaxTotal.
EndTotals == {0, 1, PAGE_SIZE + 1, MaxTotal}

\* Line 622: executeSearch calls scraper.search(query).  A query with a
\* stored apiUrl needs no discovery; the address of one without has a '#'
\* or not (part_001 line 76).
callSearch(t) ==
  /\ tasks[t].pc = "search"
  /\ paging.pc = "idle"
  /\ \E total \in EndTotals, allowed \in 0..2, hash \in BOOLEAN :
       /\ (tasks[t].query.retailerId = LIDL => allowed = 0)
       /\ (~NeedsDiscovery(tasks[t].query) \/ tasks[t].query.retailerId = LIDL
             => ~hash)
       /\ paging' = Searching(tasks[t].query.retailerId, total, allowed,
                      IF tasks[t].query.retailerId = LIDL
                           \/ ~NeedsDiscovery(tasks[t].query) THEN "none"
                      ELSE IF hash THEN "browser" ELSE "fallback")
  /\ UNCHANGED <<search_queries, products, notifications, deliveries, jobs,
                 timers, lastExecutionTimes, watchForNewQueriesJob, scrapers,
                 isInitialized, tasks, nextTimer, ops, booted, last, attempts,
                 cancelled, shutdown, cron, userStates, http, dbinit, seen,
                 registry>>

\* The product of listing i of the upstream of a retailer.
ListingOf(retailerId, i) ==
  IF retailerId = LIDL
  THEN [retailerId |-> LIDL, externalId |-> i, price |-> 30, priceType |-> ""]
  ELSE convertItemToProduct(MarktplaatsItem(i, "FIXED", 10000))

\* The listings an invocation returns, in the order of their pages.
ListingsOf(retailerId, got) ==
  [k \in 1..Cardinality(got) |-> ListingOf(retailerId, Ascending(got)[k])]

\* Line 622 when the awaited scraper.search settles: with the listings of
\* its pages, or with what MarktplaatsScraper.search rethrew, which the
\* catch of line 731 logs.
searchSettles(t) ==
  /\ tasks[t].pc = "search"
  /\ paging.pc \in {"returned", "thrown"}
  /\ paging' = NoPaging
  /\ IF paging.pc = "thrown"
     THEN /\ Caught(t, "fetch")
          /\ UNCHANGED <<search_queries, seen>>
     ELSE LET newProducts == ListingsOf(paging.retailerId, paging.got) IN
          /\ tasks' = [tasks EXCEPT ![t] =
                         [@ EXCEPT !.fetched = newProducts, !.items = newProducts,
                                   !.fresh = paging.got \ seen[tasks[t].query.id],
                                   !.pc = IF Len(newProducts) > 0 THEN "lookup"
                                          ELSE "stamp"]]
          /\ seen' = [seen EXCEPT ![tasks[t].query.id] = @ \cup paging.got]
          /\ search_queries' = Cached(search_queries, tasks[t].query)
          /\ UNCHANGED last
  /\ UNCHANGED <<products, notifications, deliveries, jobs, timers,
                 lastExecutionTimes, watchForNewQueriesJob, scrapers,
                 isInitialized, nextTimer, ops, booted, attempts, cancelled,
                 shutdown, cron, userStates, http, dbinit, registry>>

\* Under SpecEnds user 1 has two queries that ran before, have no stored
\* apiUrl and notify on new products: the first on Marktplaats, the second
\* on Marktplaats or on Lidl.
EndStores ==
  {[q \in QueryIds |->
      IF q = 1 THEN SearchQuery(1, 1, TRUE, TRUE, FALSE, 0)
      ELSE IF q = 2 THEN [SearchQuery(2, 1, TRUE, TRUE, FALSE, 0)
                            EXCEPT !.retailerId = r]
      ELSE NoQuery] : r \in {LIDL, MARKTPLAATS}}

InitEnds == InitOn(EndStores)

\* A step of an execution or of an invocation of search.
ExecutionStep ==
  \/ \E t \in TaskIds : callSearch(t)
  \/ search
  \/ gotoPage
  \/ interceptApiUrl
  \/ fetchFirstPage
  \/ fetchPage
  \/ delay
  \/ lidlFirstPage
  \/ \E page \in 1..MaxTotal : fetchAdditionalPage(page)
  \/ \E t \in TaskIds : searchSettles(t)
  \/ \E t \in TaskIds : Lookup(t)
  \/ \E t \in TaskIds : Update(t)
  \/ \E t \in TaskIds : Insert(t)
  \/ \E t \in TaskIds : createNotification(t)
  \/ \E t \in TaskIds : sendImmediateNotification(t)
  \/ \E t \in TaskIds : Stamp(t)

NextEnds ==
  \/ ExecutionStep
  \/ \E t \in TaskIds : Arm(t)
  \/ \E t \in TaskIds : scheduleAllActiveQueries(t)
  \/ \E t \in TaskIds : BootQuery(t)

\* Startup with the first execution of each query.  Every awaited call of
\* an execution settles: a request answers or reaches its timeout
\* (http-client.ts line 24, part_001 lines 38 and 103), the delay of one
\* second ends, and the store and Telegram answer or throw.
SpecEnds == InitEnds /\ [][NextEnds]_vars /\ WF_vars(ExecutionStep)

====
